---- MODULE Spec2Model ----
(***************************************************************************)
(* A model of the activity synchronisation and personal-record pipeline   *)
(* of the nudge training dashboard:                                        *)
(*   - getAthleteActivitiesSince, the paginated fetcher with retries       *)
(*     (utils/stravaApi.js),                                               *)
(*   - syncAllDataToFirebase and needsSync, the sync orchestrator          *)
(*     (utils/dataSyncService.js),                                         *)
(*   - storeActivitiesInFirebase and the athlete document writers          *)
(*     (utils/firebaseService.js),                                         *)
(*   - getPersonalRecords and getRunningPRs, the aggregation passes.       *)
(* Every async function is cut at its awaits: one action per awaited       *)
(* request, response or document write.                                    *)
(***************************************************************************)
EXTENDS Integers, Sequences, FiniteSets, TLC

VARIABLES
    \* ---- getAthleteActivitiesSince: locals of the running call
    fpc,            \* "idle" | "send" | "await" | "ret" | "threw"
    perPage,        \* the perPage parameter
    page,           \* page number being fetched (1-indexed)
    attempt,        \* retry counter of the current page
    response,       \* last response object of the current page, or NoResponse
    allActivities,  \* accumulated activity ids
    \* ---- getAthleteActivitiesSince: observations of the call (history)
    fobs,
    \* ---- the Strava server
    srvSizes,       \* the page sizes the server answers a 200 with
    \* ---- the clock: Date.now() and Timestamp.now(), in milliseconds
    now,
    \* ---- Firestore (utils/firebaseConfig.js and the documents)
    dbReady,        \* db is set: initializeApp and getFirestore succeeded
    athleteDocs,    \* athletes/{athleteId}: profile, stats, syncStatus
    activityDocs,   \* athletes/{athleteId}/activities/{activityId}
    \* ---- storeActivitiesInFirebase: locals of the running call
    stpc,           \* "idle" | "auth" | "write" | "ret" | "threw"
    stAthleteId,    \* the athleteId parameter (a string), while the call runs
    stActivities,   \* the activities parameter, while the call runs
    storedCount,    \* activities written so far
    stError,        \* message of the error the call threw
    stobs,          \* observations of the store (history)
    \* ---- the browser: localStorage of the Strava session
    localStorage,
    \* ---- syncAllDataToFirebase: locals of the running call
    spc,            \* the await the call is at, "idle", "returned" or "threw"
    authData,       \* the authData parameter
    accessToken,    \* let accessToken
    syncResults,    \* const syncResults
    syncReturn,     \* what the call returned or threw
    syncStatus,     \* const syncStatus, or errorStatus in the outer catch
    sobs,           \* observations of the syncs (history)
    progress,       \* the messages handed to onProgress, in order
    iolog,          \* the API calls and document writes of the call (history)
    nspc,           \* where the needsSync call stands
    nsArgs,         \* athleteId and maxAgeHours of the needsSync call
    nsResult,       \* what needsSync returned, and at which Date.now()
    querySnapshot,  \* the activity documents a records query reads, in order
    runningPRs,     \* what getRunningPRs returned
    personalRecords, \* what getPersonalRecords returned
    cyclingPRs,     \* what getCyclingPRs returned
    qpc,            \* where the quickSync call stands
    dataTypes,      \* the dataTypes parameter of quickSync
    qTypes,         \* the dataTypes quickSync has still to go through
    qResults,       \* const results of quickSync
    apc,            \* where the autoSync call stands
    writers,        \* two storeActivitiesInFirebase calls running at once
    statusWriters,  \* the sync status writes of two syncs running at once
    callback        \* handleCallback of the Callback page: its position and token response

fetchVars == <<fpc, perPage, page, attempt, response, allActivities, fobs>>

srvVars == <<srvSizes>>

dbVars == <<dbReady, athleteDocs, activityDocs>>

storeCallVars == <<stpc, stAthleteId, stActivities, storedCount, stError>>

storeVars == <<dbVars, storeCallVars, stobs>>

syncVars == <<spc, authData, accessToken, syncResults, syncReturn, syncStatus, sobs, progress>>

\* The queries of the stored data.
readVars == <<nspc, nsArgs, nsResult, querySnapshot, runningPRs, personalRecords, cyclingPRs>>

\* The other entry points of the sync service.
entryVars == <<qpc, dataTypes, qTypes, qResults, apc, writers, statusWriters, callback>>

\* What neither the fetcher nor the store touches.
callerVars == <<localStorage, syncVars>>

nonFetchVars == <<srvVars, entryVars, readVars, now, storeVars, callerVars>>

vars == <<fetchVars, srvVars, entryVars, readVars, now, storeVars, callerVars, iolog>>

-----------------------------------------------------------------------------
(* Bounds of the model *)

\* A full page is only served while page < MaxPages: the server's list is finite.
MaxPages == 3

\* The clock stops after MaxClockHours hours.
MaxClockHours == 1

\* Longest list of activities handed to one storeActivitiesInFirebase call.
MaxBatch == 2

\* Number of store calls of one run.
MaxStoreCalls == 2

\* Activity documents in the snapshot of a records query.
MaxActs == 3

-----------------------------------------------------------------------------
(* getAthleteActivitiesSince (utils/stravaApi.js) *)

\* const maxRetries = 5
maxRetries == 5

\* perPage = 100, the default of the parameter
DefaultPerPage == 100

NoResponse == [status |-> 0, size |-> 0, isArray |-> FALSE, retryAfter |-> 0]

\* The statuses the server answers with; 0 stands for a request that
\* axios rejects (network error), which has no response object.
ServerErrorStatuses == {500, 503}
AuthStatuses == {401, 403}
OtherStatuses == {400, 404}

\* Values of the Retry-After header of a 429 (0: header absent).
RetryAfterValues == {0, 3}

Pow2(n) == IF n = 0 THEN 1 ELSE IF n = 1 THEN 2 ELSE IF n = 2 THEN 4
           ELSE IF n = 3 THEN 8 ELSE IF n = 4 THEN 16 ELSE IF n = 5 THEN 32 ELSE 64

\* Math.pow(2, attempt) * 1000
ExpBackoffMs(a) == Pow2(a) * 1000

\* retryAfter ? retryAfter * 1000 : Math.pow(2, attempt) * 1000
RateLimitBackoffMs(retryAfter, a) ==
    IF retryAfter # 0 THEN retryAfter * 1000 ELSE ExpBackoffMs(a)

\* The ids of the items of page p when it carries n items: the server's list
\* is numbered from 1 and cut into pages of pp items.
PageItems(p, n, pp) == [i \in 1..n |-> (p - 1) * pp + i]

FetchObsInit ==
    [ totalReqs     |-> 0,      \* requests sent by the call
      pageReqs      |-> 0,      \* requests sent for the current page
      maxPageReqs   |-> 0,      \* most requests sent for one page
      sleeps        |-> 0,      \* backoff sleeps of the call
      lastBackoffMs |-> 0,      \* duration of the last backoff sleep
      pageDelays    |-> 0,      \* sleep(250) between pages
      okSizes       |-> <<>>,   \* sizes of the pages answered with 200, in order
      onlyTransient |-> TRUE,   \* every answer for the current page was 429 or 5xx
      all200        |-> TRUE,   \* every answer of the call was a 200
      fatalSeen     |-> FALSE,  \* a 401/403/other non-200 answer was received
      thrown        |-> 0,      \* status of the answer the call threw on (0: no answer)
      afterFatal    |-> {} ]    \* what the call did after such an answer

\* The stages of a sync, in the order of the code.
StageIndex(stage) ==
    CASE stage = "refresh"    -> 1
      [] stage = "profile"    -> 2
      [] stage = "stats"      -> 3
      [] stage = "activities" -> 4
      [] stage = "status"     -> 5

\* An API call ("api"), a document write ("write") or the end of a stage
\* ("done") is noted while a sync runs.
LogIO(stage, kind) ==
    iolog' = IF spc \in {"idle", "returned", "threw"} /\ qpc \in {"idle", "returned", "threw"}
             THEN iolog
             ELSE Append(iolog, <<StageIndex(stage), kind>>)

\* let allActivities = []; let page = 1; let hasMoreData = true
FetchStart(pp) ==
    /\ fpc' = "send"
    /\ perPage' = pp
    /\ page' = 1
    /\ attempt' = 0
    /\ response' = NoResponse
    /\ allActivities' = <<>>
    /\ fobs' = FetchObsInit

\* response = await axios.get(...): the request leaves
FetchSend ==
    /\ fpc = "send"
    /\ attempt <= maxRetries
    /\ fpc' = "await"
    /\ fobs' = [fobs EXCEPT !.totalReqs = @ + 1,
                            !.pageReqs = @ + 1,
                            !.maxPageReqs = IF fobs.pageReqs + 1 > @ THEN fobs.pageReqs + 1 ELSE @,
                            !.afterFatal = IF fobs.fatalSeen THEN @ \cup {"request"} ELSE @]
    /\ UNCHANGED <<perPage, page, attempt, response, allActivities>>
    /\ LogIO("activities", "api")
    /\ UNCHANGED nonFetchVars

\* The observations after an answer of the given kind ("transient": 429 or
\* 5xx, "fatal": 401, 403 or another status that is not 200, "neterr": no
\* answer at all).
Observe(obs, kind) ==
    [obs EXCEPT !.all200 = FALSE,
                !.onlyTransient = @ /\ kind = "transient",
                !.fatalSeen = @ \/ kind = "fatal"]

\* The code below the inner loop, reached with a response that is not a 200
\* when while (attempt <= maxRetries) ends:
\* if (!response) break; const activities = response.data || [];
\* if (!Array.isArray(activities) || activities.length === 0) hasMoreData = false;
\* then return allActivities. The body of an error answer is no array.
AfterRetriesExhausted(resp, obs) ==
    /\ fpc' = "ret"
    /\ response' = resp
    /\ fobs' = obs
    /\ UNCHANGED <<perPage, page, allActivities>>

\* (mutant) the retry does not count: attempt stays as it is
BackoffAndRetry_KeepsAttempt(resp, ms, kind) ==
    /\ fpc' = "send"
    /\ response' = resp
    /\ fobs' = [Observe(fobs, kind) EXCEPT !.sleeps = @ + 1, !.lastBackoffMs = ms]
    /\ UNCHANGED <<perPage, page, attempt, allActivities>>

\* await sleep(backoffMs); attempt++; then the test of the inner loop
BackoffAndRetry(resp, ms, kind) ==
    LET seen == Observe(fobs, kind)
        obs  == [seen EXCEPT !.sleeps = @ + 1,
                             !.lastBackoffMs = ms,
                             !.afterFatal = IF seen.fatalSeen THEN @ \cup {"sleep"} ELSE @]
    IN  /\ attempt' = attempt + 1
        /\ IF attempt + 1 <= maxRetries
           THEN /\ fpc' = "send"
                /\ response' = resp
                /\ fobs' = obs
                /\ UNCHANGED <<perPage, page, allActivities>>
           ELSE AfterRetriesExhausted(resp, obs)

\* catch (err) { if (attempt >= maxRetries) throw err; await sleep(...); attempt++ }
\* and the outer catch, which rethrows.
CatchInLoop(resp, kind) ==
    IF attempt >= maxRetries
    THEN /\ fpc' = "threw"
         /\ response' = resp
         /\ fobs' = [Observe(fobs, kind) EXCEPT !.thrown = IF kind = "fatal" THEN resp.status ELSE 0]
         /\ UNCHANGED <<perPage, page, attempt, allActivities>>
    ELSE BackoffAndRetry(resp, ExpBackoffMs(attempt), kind)

ErrorResponse(st, ra) == [status |-> st, size |-> 0, isArray |-> FALSE, retryAfter |-> ra]

\* if (response.status === 429) { ...; await sleep(backoffMs); attempt++; continue }
FetchRateLimited ==
    \E ra \in RetryAfterValues :
        /\ fpc = "await"
        /\ BackoffAndRetry(ErrorResponse(429, ra), RateLimitBackoffMs(ra, attempt), "transient")
        /\ UNCHANGED <<nonFetchVars, iolog>>

\* if (response.status >= 500 && response.status < 600) { ...; attempt++; continue }
FetchServerError ==
    \E st \in ServerErrorStatuses :
        /\ fpc = "await"
        /\ st >= 500 /\ st < 600
        /\ BackoffAndRetry(ErrorResponse(st, 0), ExpBackoffMs(attempt), "transient")
        /\ UNCHANGED <<nonFetchVars, iolog>>

\* if (response.status === 401 || response.status === 403) throw err:
\* thrown inside the try of the inner loop, so its catch handles it
FetchAuthError ==
    \E st \in AuthStatuses :
        /\ fpc = "await"
        /\ CatchInLoop(ErrorResponse(st, 0), "fatal")
        /\ UNCHANGED <<nonFetchVars, iolog>>

\* any other status that is not 200: throw err, inside the same try
FetchUnexpected ==
    \E st \in OtherStatuses :
        /\ fpc = "await"
        /\ CatchInLoop(ErrorResponse(st, 0), "fatal")
        /\ UNCHANGED <<nonFetchVars, iolog>>

\* axios.get rejects (no answer): response keeps its previous value
FetchNetworkError ==
    /\ fpc = "await"
    /\ CatchInLoop(response, "neterr")
    /\ UNCHANGED <<nonFetchVars, iolog>>

\* (mutant) a page number is skipped
NextPage_Skips(p) == p + 2

\* page++
NextPage(p) == p + 1

\* (mutant) a full page is taken for the last one
IsShortPage_Inclusive(n, pp) == n <= pp

\* activities.length < perPage

IsShortPage(n, pp) == n < pp

\* if (response.status === 200) break; then the code below the inner loop:
\* an empty page ends the fetch, a short page is added and ends it, a full
\* page is added and the next page is requested after sleep(250).
FetchOK ==
    \E n \in srvSizes :
        /\ fpc = "await"
        /\ n <= perPage
        /\ n = perPage => page < MaxPages
        /\ LET resp == [status |-> 200, size |-> n, isArray |-> TRUE, retryAfter |-> 0]
               obs  == [fobs EXCEPT !.okSizes = Append(@, n), !.onlyTransient = FALSE]
           IN  /\ response' = resp
               /\ IF n = 0
                  THEN /\ fpc' = "ret"
                       /\ fobs' = obs
                       /\ UNCHANGED <<perPage, page, attempt, allActivities>>
                  ELSE /\ allActivities' = allActivities \o PageItems(page, n, perPage)
                       /\ IF IsShortPage(n, perPage)
                          THEN /\ fpc' = "ret"
                               /\ fobs' = obs
                               /\ UNCHANGED <<perPage, page, attempt>>
                          ELSE /\ page' = NextPage(page)
                               /\ attempt' = 0
                               /\ fpc' = "send"
                               /\ fobs' = [obs EXCEPT !.pageDelays = @ + 1,
                                                      !.pageReqs = 0,
                                                      !.onlyTransient = TRUE]
                               /\ UNCHANGED perPage
        /\ UNCHANGED <<nonFetchVars, iolog>>

FetchStep ==
    \/ FetchSend
    \/ FetchRateLimited
    \/ FetchServerError
    \/ FetchAuthError
    \/ FetchUnexpected
    \/ FetchNetworkError
    \/ FetchOK

FetchIdle ==
    /\ fpc = "idle"
    /\ perPage = DefaultPerPage
    /\ page = 1
    /\ attempt = 0
    /\ response = NoResponse
    /\ allActivities = <<>>
    /\ fobs = FetchObsInit

-----------------------------------------------------------------------------
(* The clock *)

\* maxAgeHours * 60 * 60 * 1000
MsPerHour == 60 * 60 * 1000

ClockEnd == MaxClockHours * MsPerHour + MsPerHour

\* An hour passes.
Tick ==
    /\ now + MsPerHour < ClockEnd
    /\ now' = now + MsPerHour
    /\ UNCHANGED <<fetchVars, srvVars, entryVars, readVars, storeVars, callerVars, iolog>>

\* A round trip to a server takes at least one millisecond of the clock.
RoundTrip == now' = now + 1

-----------------------------------------------------------------------------
(* Firestore documents (utils/firebaseService.js) *)

AthleteIds == {7, 8}
ActivityIds == {1, 2, 3}

Digits == <<"0", "1", "2", "3", "4", "5", "6", "7", "8", "9">>

RECURSIVE String(_)
\* String(n) of a non-negative integer: its decimal digits
String(n) == IF n < 10 THEN Digits[n + 1] ELSE String(n \div 10) \o Digits[(n % 10) + 1]

\* (mutant) the document path leaves out the athlete
ActivityPath_NoAthlete(athleteId, activityId) == <<"athletes", String(activityId)>>

\* doc(db, 'athletes', athleteId, 'activities', String(activity.id))
ActivityPath(athleteId, activityId) == <<athleteId, String(activityId)>>

\* new Date().toISOString(): the date as text, here its hour and its
\* milliseconds within the hour; "" (no date) is <<>>.
ToISOString(t) == <<t \div MsPerHour, t % MsPerHour>>

\* new Date(text): the milliseconds of a date written by toISOString
DateParse(text) == text[1] * MsPerHour + text[2]

\* One result of syncResults: null, { success: true, ... } or
\* { success: false, error }.
NullResult == [set |-> FALSE, success |-> FALSE, error |-> "", count |-> 0]
OKResult(n) == [set |-> TRUE, success |-> TRUE, error |-> "", count |-> n]
FailedResult(msg) == [set |-> TRUE, success |-> FALSE, error |-> msg, count |-> 0]

\* const syncResults = { athlete: null, stats: null, activities: null, errors: [] }
EmptySyncResults ==
    [athlete |-> NullResult, stats |-> NullResult, activities |-> NullResult, errors |-> <<>>]

\* The keys of an athlete document before they are written.
NoProfile == [set |-> FALSE, id |-> 0, firstname |-> "", stored_at |-> 0, updated_at |-> 0]
NoStats == [set |-> FALSE, runCount |-> 0, stored_at |-> 0, updated_at |-> 0]
NoSyncStatus ==
    [set |-> FALSE, lastSyncTime |-> <<>>, success |-> FALSE, errors |-> <<>>,
     hasResults |-> FALSE, syncResults |-> EmptySyncResults, stored_at |-> 0]

\* An athlete document that was never written.
NoAthleteDoc == [profile |-> NoProfile, stats |-> NoStats, syncStatus |-> NoSyncStatus]

\* sport_type: activity.sport_type || activity.type
SportTypeOrType(activity) ==
    IF activity.sport_type # "" THEN activity.sport_type ELSE activity.type

\* const activityData = { id: activity.id, name: activity.name, ... ,
\*   stored_at: Timestamp.now(), updated_at: Timestamp.now() }
ActivityData(activity, t) ==
    [ id                   |-> activity.id,
      name                 |-> activity.name,
      type                 |-> activity.type,
      sport_type           |-> SportTypeOrType(activity),
      distance             |-> activity.distance,
      moving_time          |-> activity.moving_time,
      total_elevation_gain |-> activity.total_elevation_gain,
      average_speed        |-> activity.average_speed,
      start_date           |-> activity.start_date,
      stored_at            |-> t,
      updated_at           |-> t ]

\* (mutant) the document is added under an id of the store's own, as addDoc does
SetActivityDoc_AutoId(docs, path, data) ==
    LET auto == <<path[1], "auto-" \o String(Cardinality(DOMAIN docs))>>
    IN  [q \in DOMAIN docs \cup {auto} |-> IF q = auto THEN data ELSE docs[q]]

\* setDoc(ref, data, { merge: true }) on the activities collection: the
\* fields of data replace those of the document at the path, which is
\* created when missing; every field of an activity document is in data.
SetActivityDoc(docs, path, data) ==
    [q \in DOMAIN docs \cup {path} |-> IF q = path THEN data ELSE docs[q]]

\* The athlete document at athletes/{athleteId}, as getDoc reads it.
AthleteDoc(docs, athleteId) ==
    IF athleteId \in DOMAIN docs THEN docs[athleteId] ELSE NoAthleteDoc

\* { merge: true } on one result of syncResults: null replaces what is
\* stored and a stored null is replaced; between two objects success is
\* replaced, and error (given by a failure only) and count (given by a
\* success only) stay as stored when the new result does not give them.
MergeResult(old, new) ==
    IF ~new.set \/ ~old.set
    THEN new
    ELSE [set     |-> TRUE,
          success |-> new.success,
          error   |-> IF new.success THEN old.error ELSE new.error,
          count   |-> IF new.success THEN new.count ELSE old.count]

\* { merge: true } on syncStatus: lastSyncTime, success, the array errors and
\* stored_at are replaced; syncResults is replaced when the new or the stored
\* one is null, and merged result by result otherwise (its array errors is
\* replaced).
MergeStatus(old, new) ==
    IF ~old.set \/ ~old.hasResults \/ ~new.hasResults
    THEN new
    ELSE [new EXCEPT !.syncResults =
              [athlete    |-> MergeResult(old.syncResults.athlete, new.syncResults.athlete),
               stats      |-> MergeResult(old.syncResults.stats, new.syncResults.stats),
               activities |-> MergeResult(old.syncResults.activities, new.syncResults.activities),
               errors     |-> new.syncResults.errors]]

\* (mutant) setDoc without merge: the document is replaced by { [key]: value }
SetAthleteField_NoMerge(docs, athleteId, key, value) ==
    LET new == [NoAthleteDoc EXCEPT ![key] = value]
    IN  [a \in DOMAIN docs \cup {athleteId} |-> IF a = athleteId THEN new ELSE docs[a]]

\* setDoc(athleteRef, { [key]: value }, { merge: true }): the document is
\* created when missing and its other keys stay; under the named key the
\* fields of value are merged into the stored ones. Every field of a profile
\* and of the stats is in value, so these are replaced.
SetAthleteField(docs, athleteId, key, value) ==
    LET doc == AthleteDoc(docs, athleteId)
        new == [doc EXCEPT ![key] = IF key = "syncStatus"
                                    THEN MergeStatus(doc.syncStatus, value)
                                    ELSE value]
    IN  [a \in DOMAIN docs \cup {athleteId} |-> IF a = athleteId THEN new ELSE docs[a]]

\* const profileData = { ...athleteProfile, stored_at: Timestamp.now(), updated_at: Timestamp.now() }
ProfileData(athleteProfile, t) ==
    [set |-> TRUE, id |-> athleteProfile.id, firstname |-> athleteProfile.firstname,
     stored_at |-> t, updated_at |-> t]

\* const statsData = { ...athleteStats, stored_at: Timestamp.now(), updated_at: Timestamp.now() }
StatsData(athleteStats, t) ==
    [set |-> TRUE, runCount |-> athleteStats.runCount, stored_at |-> t, updated_at |-> t]

\* (mutant) the stored status always reports success
StatusData_AlwaysSuccess(status, t) ==
    [set |-> TRUE, lastSyncTime |-> status.lastSyncTime, success |-> TRUE,
     errors |-> status.errors, hasResults |-> status.hasResults,
     syncResults |-> status.syncResults, stored_at |-> t]

\* const statusData = { ...syncStatus, stored_at: Timestamp.now() }
StatusData(status, t) ==
    [set |-> TRUE, lastSyncTime |-> status.lastSyncTime, success |-> status.success,
     errors |-> status.errors, hasResults |-> status.hasResults,
     syncResults |-> status.syncResults, stored_at |-> t]

\* Messages of the errors of the store.
NotInitializedMsg == "Firebase is not initialized. Please check your Firebase configuration."
AuthFailedMsg == "auth/network-request-failed"
WriteFailedMsg == "permission-denied"

StoreObsInit ==
    [ calls      |-> 0,       \* storeActivitiesInFirebase calls started
      writes     |-> 0,       \* activity documents written by the current call
      rewritten  |-> FALSE,   \* some write hit a document that existed
      storedKeys |-> {} ]     \* the (athleteId, activity id) pairs written so far

StoreCallIdle ==
    /\ stpc = "idle"
    /\ stAthleteId = ""
    /\ stActivities = <<>>
    /\ storedCount = 0
    /\ stError = ""

\* (mutant) storeActivitiesInFirebase does not look at db
StoreStart_NoDbCheck(athleteId, activities) ==
    /\ storedCount' = 0
    /\ stobs' = [stobs EXCEPT !.calls = @ + 1, !.writes = 0]
    /\ stpc' = "auth"
    /\ stError' = ""
    /\ stAthleteId' = athleteId
    /\ stActivities' = activities

\* storeActivitiesInFirebase(athleteId, activities), up to its first await:
\* if (!db) throw new Error('Firebase is not initialized...')
StoreStart(athleteId, activities) ==
    /\ storedCount' = 0
    /\ stobs' = [stobs EXCEPT !.calls = @ + 1, !.writes = 0]
    /\ IF dbReady
       THEN /\ stpc' = "auth"
            /\ stError' = ""
            /\ stAthleteId' = athleteId
            /\ stActivities' = activities
       ELSE /\ stpc' = "threw"
            /\ stError' = NotInitializedMsg
            /\ stAthleteId' = ""
            /\ stActivities' = <<>>

\* await ensureAuthenticated() resolves; an empty list returns at once
StoreAuthOK ==
    /\ stpc = "auth"
    /\ IF stActivities = <<>>
       THEN stpc' = "ret" /\ stAthleteId' = ""
       ELSE stpc' = "write" /\ stAthleteId' = stAthleteId
    /\ UNCHANGED <<stActivities, storedCount, stError, stobs>>
    /\ UNCHANGED <<fetchVars, srvVars, entryVars, readVars, now, dbVars, callerVars, iolog>>

\* await ensureAuthenticated() rejects: catch (error) { throw error }
StoreAuthFail ==
    /\ stpc = "auth"
    /\ stpc' = "threw"
    /\ stError' = AuthFailedMsg
    /\ stAthleteId' = ""
    /\ stActivities' = <<>>
    /\ UNCHANGED <<storedCount, stobs>>
    /\ UNCHANGED <<fetchVars, srvVars, entryVars, readVars, now, dbVars, callerVars, iolog>>

\* (mutant) the loop walks the list from its end
NextToStore_FromEnd == stActivities[Len(stActivities) - storedCount]

\* for (const activity of activities): the activity of the current turn
NextToStore == stActivities[storedCount + 1]

\* await setDoc(activityRef, activityData, { merge: true }); storedCount++;
\* after the last activity: return { success: true, count: storedCount, ... }
StoreWriteOK ==
    /\ stpc = "write"
    /\ now + 1 < ClockEnd
    /\ LET activity == NextToStore
           path     == ActivityPath(stAthleteId, activity.id)
       IN  /\ activityDocs' = SetActivityDoc(activityDocs, path, ActivityData(activity, now))
           /\ stobs' = [stobs EXCEPT !.writes = @ + 1,
                                     !.rewritten = @ \/ path \in DOMAIN activityDocs,
                                     !.storedKeys = @ \cup {<<stAthleteId, activity.id>>}]
    /\ storedCount' = storedCount + 1
    /\ IF storedCount + 1 = Len(stActivities)
       THEN stpc' = "ret" /\ stAthleteId' = "" /\ stActivities' = <<>>
       ELSE stpc' = "write" /\ UNCHANGED <<stAthleteId, stActivities>>
    /\ RoundTrip
    /\ LogIO("activities", "write")
    /\ UNCHANGED stError
    /\ UNCHANGED <<fetchVars, srvVars, entryVars, readVars, dbReady, athleteDocs, callerVars>>

\* await setDoc(...) rejects: catch (error) { throw error }
StoreWriteFail ==
    /\ stpc = "write"
    /\ stpc' = "threw"
    /\ stError' = WriteFailedMsg
    /\ stAthleteId' = ""
    /\ stActivities' = <<>>
    /\ LogIO("activities", "write")
    /\ UNCHANGED <<storedCount, stobs>>
    /\ UNCHANGED <<fetchVars, srvVars, entryVars, readVars, now, dbVars, callerVars>>

StoreStep ==
    \/ StoreAuthOK
    \/ StoreAuthFail
    \/ StoreWriteOK
    \/ StoreWriteFail

-----------------------------------------------------------------------------
(* The Strava session and API (utils/stravaApi.js) *)

\* What the caller passes as authData: getStoredAuthData() or its parts.
NoAuthData == [present |-> FALSE, accessToken |-> "", refreshToken |-> "", athleteId |-> 0]

ValidAuthData ==
    [present |-> TRUE, accessToken |-> "access-1", refreshToken |-> "refresh-1", athleteId |-> 7]

AuthDatas ==
    { NoAuthData,
      ValidAuthData,
      [ValidAuthData EXCEPT !.accessToken = ""],
      [ValidAuthData EXCEPT !.refreshToken = ""],
      [ValidAuthData EXCEPT !.athleteId = 0] }

\* The Strava session in localStorage; expires_at is in seconds, -1 when the
\* item is missing.
StoredSession(expiresAt) ==
    [access_token |-> "access-1", refresh_token |-> "refresh-1", expires_at |-> expiresAt]

\* isTokenExpired: if (!expiresAt) return true;
\* return Date.now() / 1000 > parseInt(expiresAt)
isTokenExpired == localStorage.expires_at = -1 \/ now > localStorage.expires_at * 1000

\* What the token endpoint answers to a refresh: a new pair, good for six hours.
RefreshedAuthData ==
    [access_token |-> "access-2", refresh_token |-> "refresh-2",
     expires_at |-> (now \div 1000) + 6 * 60 * 60]

\* storeAuthData(data)
storeAuthData(data) ==
    localStorage' = [access_token |-> data.access_token,
                     refresh_token |-> data.refresh_token,
                     expires_at |-> data.expires_at]

\* What GET /athlete and GET /athletes/{id}/stats answer.
SrvProfile(athleteId) == [id |-> athleteId, firstname |-> "Ada"]
SrvStats == [runCount |-> 3]

\* The activity the server lists under an id.
SrvActivity(id) ==
    [ id |-> id, name |-> "Morning Run", type |-> "Run", sport_type |-> "Run",
      distance |-> 5000, moving_time |-> 1500, total_elevation_gain |-> 10,
      average_speed |-> 3, start_date |-> id ]

\* Messages of the errors of the API calls.
ApiFailedMsg == "Request failed with status code 500"
RefreshFailedMsg == "Request failed with status code 400"
NoAuthMsg == "No valid authentication data provided"
NoAthleteMsg == "No athlete ID found in authentication data"

\* The message of the error getAthleteActivitiesSince throws.
FetchErrorMsg ==
    CASE fobs.thrown = 401 -> "Authentication error when calling Strava API: 401"
      [] fobs.thrown = 403 -> "Authentication error when calling Strava API: 403"
      [] fobs.thrown = 400 -> "Unexpected response from Strava API: 400"
      [] fobs.thrown = 404 -> "Unexpected response from Strava API: 404"
      [] OTHER -> "Network Error"

-----------------------------------------------------------------------------
(* syncAllDataToFirebase (utils/dataSyncService.js) *)

SyncObsInit ==
    [ calls  |-> 0,      \* syncAllDataToFirebase calls started
      failed |-> {},     \* the stages of the current call in which an error was thrown
      ended  |-> {} ]    \* the stages of the current call that have ended

NoReturn == [threw |-> FALSE, error |-> "", success |-> FALSE, errors |-> <<>>,
             lastSyncTime |-> <<>>, results |-> EmptySyncResults]

NoStatusLocal ==
    [lastSyncTime |-> <<>>, success |-> FALSE, errors |-> <<>>,
     hasResults |-> FALSE, syncResults |-> EmptySyncResults]

SyncIdle ==
    /\ spc = "idle"
    /\ authData = NoAuthData
    /\ accessToken = ""
    /\ syncResults = EmptySyncResults
    /\ syncReturn = NoReturn
    /\ syncStatus = NoStatusLocal
    /\ sobs = SyncObsInit
    /\ progress = <<>>
    /\ iolog = <<>>

\* The errors the store functions throw when db is set.
StoreFailures == {AuthFailedMsg, WriteFailedMsg}

\* A store function of the athlete document fails: db is not set, or
\* ensureAuthenticated or setDoc rejects.
StoreFails(msg) == IF dbReady THEN msg \in StoreFailures ELSE msg = NotInitializedMsg

\* The call ends a stage and notes it.
Ended(stage, threw) ==
    sobs' = [sobs EXCEPT !.ended = @ \cup {stage},
                         !.failed = IF threw THEN @ \cup {stage} ELSE @]

\* syncAllDataToFirebase(ad, onProgress) up to its first await, after the
\* caller has handed the messages said to onProgress:
\* if (!authData || !authData.accessToken) throw ...;
\* if (!athleteId) throw ...; then, inside try:
\* if (isTokenExpired() && authData.refreshToken) { onProgress; await refreshAccessToken(...) }
\* else the profile stage starts: onProgress; await getAthlete(accessToken)
SyncCall(ad, said) ==
    /\ spc = "idle"
    /\ fpc = "idle" /\ stpc = "idle"
    /\ authData' = ad
    /\ sobs' = [calls |-> sobs.calls + 1, failed |-> {}, ended |-> {}]
    /\ syncResults' = EmptySyncResults
    /\ syncStatus' = NoStatusLocal
    /\ IF ~ad.present \/ ad.accessToken = ""
       THEN /\ spc' = "threw"
            /\ syncReturn' = [NoReturn EXCEPT !.threw = TRUE, !.error = NoAuthMsg]
            /\ accessToken' = ""
            /\ progress' = said
            /\ iolog' = <<>>
       ELSE IF ad.athleteId = 0
       THEN /\ spc' = "threw"
            /\ syncReturn' = [NoReturn EXCEPT !.threw = TRUE, !.error = NoAthleteMsg]
            /\ accessToken' = ad.accessToken
            /\ progress' = said
            /\ iolog' = <<>>
       ELSE /\ syncReturn' = NoReturn
            /\ accessToken' = ad.accessToken
            /\ IF isTokenExpired /\ ad.refreshToken # ""
               THEN /\ spc' = "refresh"
                    /\ progress' = Append(said, "Refreshing access token...")
                    /\ iolog' = <<<<StageIndex("refresh"), "api">>>>
               ELSE /\ spc' = "getAthlete"
                    /\ progress' = Append(said, "Fetching athlete profile...")
                    /\ iolog' = <<<<StageIndex("profile"), "api">>>>

\* A caller calls syncAllDataToFirebase(authData, onProgress).
SyncStart ==
    \E ad \in AuthDatas :
        /\ qpc = "idle" /\ apc = "idle"
        /\ SyncCall(ad, <<>>)
        /\ UNCHANGED <<fetchVars, srvVars, entryVars, readVars, now, storeVars, localStorage>>

\* const newAuthData = await refreshAccessToken(...) resolves;
\* storeAuthData(newAuthData); accessToken = newAuthData.access_token;
\* then the profile stage starts
SyncRefreshed ==
    /\ spc = "refresh"
    /\ storeAuthData(RefreshedAuthData)
    /\ accessToken' = RefreshedAuthData.access_token
    /\ spc' = "getAthlete"
    /\ Ended("refresh", FALSE)
    /\ progress' = Append(progress, "Fetching athlete profile...")
    /\ iolog' = iolog \o <<<<StageIndex("refresh"), "done">>, <<StageIndex("profile"), "api">>>>
    /\ UNCHANGED <<authData, syncResults, syncReturn, syncStatus>>
    /\ UNCHANGED <<fetchVars, srvVars, entryVars, readVars, now, storeVars>>

\* (mutant) the failed refresh is swallowed and the sync goes on with the
\* token it has
SyncRefreshFailed_CarriesOn ==
    /\ spc = "refresh"
    /\ spc' = "getAthlete"
    /\ Ended("refresh", TRUE)
    /\ progress' = Append(progress, "Fetching athlete profile...")
    /\ iolog' = iolog \o <<<<StageIndex("refresh"), "done">>, <<StageIndex("profile"), "api">>>>
    /\ UNCHANGED <<authData, accessToken, syncResults, syncReturn, syncStatus>>
    /\ UNCHANGED <<fetchVars, srvVars, entryVars, readVars, now, storeVars, localStorage>>

\* await refreshAccessToken(...) rejects: the outer catch builds errorStatus
\* and awaits storeSyncStatus(String(athleteId), errorStatus)
SyncRefreshFailed ==
    /\ spc = "refresh"
    /\ spc' = "storeErrorStatus"
    /\ syncStatus' = [lastSyncTime |-> ToISOString(now), success |-> FALSE,
                      errors |-> <<RefreshFailedMsg>>, hasResults |-> FALSE,
                      syncResults |-> EmptySyncResults]
    /\ syncReturn' = [NoReturn EXCEPT !.error = RefreshFailedMsg]
    /\ Ended("refresh", TRUE)
    /\ iolog' = iolog \o <<<<StageIndex("refresh"), "done">>, <<StageIndex("status"), "write">>>>
    /\ UNCHANGED <<authData, accessToken, syncResults, progress>>
    /\ UNCHANGED <<fetchVars, srvVars, entryVars, readVars, now, storeVars, localStorage>>

\* await storeSyncStatus(..., errorStatus) resolves, or rejects into
\* catch (statusError); then throw error
SyncErrorStatusStored ==
    \E stored \in BOOLEAN :
        /\ spc = "storeErrorStatus"
        /\ stored => dbReady
        /\ IF stored
           THEN /\ athleteDocs' = SetAthleteField(athleteDocs, String(authData.athleteId),
                                                  "syncStatus", StatusData(syncStatus, now))
                /\ RoundTrip
           ELSE UNCHANGED <<athleteDocs, now>>
        /\ spc' = "threw"
        /\ syncReturn' = [syncReturn EXCEPT !.threw = TRUE]
        /\ Ended("status", ~stored)
        /\ iolog' = Append(iolog, <<StageIndex("status"), "done">>)
        /\ UNCHANGED <<authData, accessToken, syncResults, syncStatus, progress>>
        /\ UNCHANGED <<fetchVars, srvVars, entryVars, readVars, dbReady, activityDocs, storeCallVars, stobs, localStorage>>

\* (mutant) the recorded error carries the bearer token of the failed request
PushError_WithToken(results, prefix, msg) ==
    [results EXCEPT !.errors = Append(@, <<prefix, accessToken>>)]

\* syncResults.errors.push(`${prefix}: ${error.message}`)
PushError(results, prefix, msg) == [results EXCEPT !.errors = Append(@, <<prefix, msg>>)]

\* const athleteProfile = await getAthlete(accessToken) resolves;
\* onProgress; await storeAthleteProfile(String(athleteId), athleteProfile)
SyncGotAthlete ==
    /\ spc = "getAthlete"
    /\ spc' = "storeProfile"
    /\ progress' = Append(progress, "Storing athlete profile...")
    /\ iolog' = Append(iolog, <<StageIndex("profile"), "write">>)
    /\ UNCHANGED <<authData, accessToken, syncResults, syncReturn, syncStatus, sobs>>
    /\ UNCHANGED <<fetchVars, srvVars, entryVars, readVars, now, storeVars, localStorage>>

\* The stats stage starts: onProgress; await getAthleteStats(accessToken, athleteId)
BeginStats(results, threw) ==
    /\ syncResults' = results
    /\ spc' = "getStats"
    /\ Ended("profile", threw)
    /\ progress' = Append(progress, "Fetching athlete stats...")
    /\ iolog' = iolog \o <<<<StageIndex("profile"), "done">>, <<StageIndex("stats"), "api">>>>
    /\ UNCHANGED <<authData, accessToken, syncReturn, syncStatus>>

\* (mutant) the catch of the profile stage rethrows into the outer catch
ProfileFailed_Rethrows(msg) ==
    /\ syncResults' = syncResults
    /\ spc' = "storeErrorStatus"
    /\ syncStatus' = [lastSyncTime |-> ToISOString(now), success |-> FALSE,
                      errors |-> <<msg>>, hasResults |-> FALSE,
                      syncResults |-> EmptySyncResults]
    /\ syncReturn' = [NoReturn EXCEPT !.error = msg]
    /\ Ended("profile", TRUE)
    /\ progress' = progress
    /\ iolog' = iolog \o <<<<StageIndex("profile"), "done">>, <<StageIndex("status"), "write">>>>
    /\ UNCHANGED <<authData, accessToken>>

\* catch (error) of the profile stage
ProfileFailed(msg) ==
    BeginStats([PushError(syncResults, "Athlete profile sync failed", msg)
                    EXCEPT !.athlete = FailedResult(msg)], TRUE)

\* await getAthlete(accessToken) rejects
SyncGetAthleteFailed ==
    /\ spc = "getAthlete"
    /\ ProfileFailed(ApiFailedMsg)
    /\ UNCHANGED <<fetchVars, srvVars, entryVars, readVars, now, storeVars, localStorage>>

\* await storeAthleteProfile(...) resolves;
\* syncResults.athlete = { success: true, data: athleteProfile }
SyncProfileStored ==
    /\ spc = "storeProfile"
    /\ dbReady
    /\ athleteDocs' = SetAthleteField(athleteDocs, String(authData.athleteId), "profile",
                                      ProfileData(SrvProfile(authData.athleteId), now))
    /\ RoundTrip
    /\ BeginStats([syncResults EXCEPT !.athlete = OKResult(0)], FALSE)
    /\ UNCHANGED <<fetchVars, srvVars, entryVars, readVars, dbReady, activityDocs, storeCallVars, stobs, localStorage>>

\* await storeAthleteProfile(...) rejects
SyncProfileStoreFailed ==
    \E msg \in StoreFailures \cup {NotInitializedMsg} :
        /\ spc = "storeProfile"
        /\ StoreFails(msg)
        /\ ProfileFailed(msg)
        /\ UNCHANGED <<fetchVars, srvVars, entryVars, readVars, now, storeVars, localStorage>>

\* (mutant) the activities request is sent before the stats are stored
SyncGotStats_FetchesAhead ==
    /\ spc = "getStats"
    /\ spc' = "storeStats"
    /\ progress' = Append(progress, "Storing athlete stats...")
    /\ iolog' = iolog \o <<<<StageIndex("activities"), "api">>, <<StageIndex("stats"), "write">>>>
    /\ UNCHANGED <<authData, accessToken, syncResults, syncReturn, syncStatus, sobs>>
    /\ UNCHANGED <<fetchVars, srvVars, entryVars, readVars, now, storeVars, localStorage>>

\* const athleteStats = await getAthleteStats(...) resolves;
\* onProgress; await storeAthleteStats(String(athleteId), athleteStats)
SyncGotStats ==
    /\ spc = "getStats"
    /\ spc' = "storeStats"
    /\ progress' = Append(progress, "Storing athlete stats...")
    /\ iolog' = Append(iolog, <<StageIndex("stats"), "write">>)
    /\ UNCHANGED <<authData, accessToken, syncResults, syncReturn, syncStatus, sobs>>
    /\ UNCHANGED <<fetchVars, srvVars, entryVars, readVars, now, storeVars, localStorage>>

\* The activities stage starts: onProgress;
\* await getAthleteActivitiesLast3Months(accessToken), which awaits
\* getAthleteActivitiesSince(accessToken, afterTimestamp)
BeginActivities(results, threw) ==
    /\ syncResults' = results
    /\ spc' = "fetchActivities"
    /\ Ended("stats", threw)
    /\ progress' = Append(progress, "Fetching activities from Strava...")
    /\ iolog' = Append(iolog, <<StageIndex("stats"), "done">>)
    /\ FetchStart(DefaultPerPage)
    /\ UNCHANGED <<authData, accessToken, syncReturn, syncStatus>>

\* (mutant) the catch of the stats stage forgets syncResults.errors.push
StatsFailed_NoPush(msg) ==
    BeginActivities([syncResults EXCEPT !.stats = FailedResult(msg)], TRUE)

\* catch (error) of the stats stage
StatsFailed(msg) ==
    BeginActivities([PushError(syncResults, "Athlete stats sync failed", msg)
                        EXCEPT !.stats = FailedResult(msg)], TRUE)

\* await getAthleteStats(accessToken, athleteId) rejects
SyncGetStatsFailed ==
    /\ spc = "getStats"
    /\ StatsFailed(ApiFailedMsg)
    /\ UNCHANGED <<srvVars, entryVars, readVars, now, storeVars, localStorage>>

\* await storeAthleteStats(...) resolves;
\* syncResults.stats = { success: true, data: athleteStats }
SyncStatsStored ==
    /\ spc = "storeStats"
    /\ dbReady
    /\ athleteDocs' = SetAthleteField(athleteDocs, String(authData.athleteId), "stats",
                                      StatsData(SrvStats, now))
    /\ RoundTrip
    /\ BeginActivities([syncResults EXCEPT !.stats = OKResult(0)], FALSE)
    /\ UNCHANGED <<srvVars, entryVars, readVars, dbReady, activityDocs, storeCallVars, stobs, localStorage>>

\* await storeAthleteStats(...) rejects
SyncStatsStoreFailed ==
    \E msg \in StoreFailures \cup {NotInitializedMsg} :
        /\ spc = "storeStats"
        /\ StoreFails(msg)
        /\ StatsFailed(msg)
        /\ UNCHANGED <<srvVars, entryVars, readVars, now, storeVars, localStorage>>

\* The fetcher's locals are gone once its caller has its result.
FetchDone ==
    /\ fpc' = "idle"
    /\ page' = 1
    /\ attempt' = 0
    /\ response' = NoResponse
    /\ allActivities' = <<>>
    /\ fobs' = FetchObsInit
    /\ UNCHANGED perPage

\* activities = await getAthleteActivitiesSince(...) resolves; onProgress;
\* await storeActivitiesInFirebase(String(athleteId), activities)
SyncActivitiesFetched ==
    /\ spc = "fetchActivities"
    /\ fpc = "ret"
    /\ spc' = "storeActivities"
    /\ StoreStart(String(authData.athleteId),
                  [i \in 1..Len(allActivities) |-> SrvActivity(allActivities[i])])
    /\ FetchDone
    /\ progress' = Append(progress, "Storing activities...")
    /\ UNCHANGED <<authData, accessToken, syncResults, syncReturn, syncStatus, sobs, iolog>>
    /\ UNCHANGED <<srvVars, entryVars, readVars, now, dbVars, localStorage>>

\* The status stage starts: const syncStatus = { lastSyncTime: new Date().toISOString(),
\* success: syncResults.errors.length === 0, errors: syncResults.errors, syncResults };
\* await storeSyncStatus(String(athleteId), syncStatus)
BeginStatus(results, threw) ==
    /\ syncResults' = results
    /\ syncStatus' = [lastSyncTime |-> ToISOString(now),
                      success |-> Len(results.errors) = 0,
                      errors |-> results.errors,
                      hasResults |-> TRUE,
                      syncResults |-> results]
    /\ spc' = "storeStatus"
    /\ Ended("activities", threw)
    /\ iolog' = iolog \o <<<<StageIndex("activities"), "done">>, <<StageIndex("status"), "write">>>>
    /\ UNCHANGED <<authData, accessToken, syncReturn, progress>>

\* catch (error) of the activities stage
ActivitiesFailed(msg) ==
    BeginStatus([PushError(syncResults, "Activities sync failed", msg)
                    EXCEPT !.activities = FailedResult(msg)], TRUE)

\* await getAthleteActivitiesSince(...) rejects
SyncActivitiesFetchFailed ==
    /\ spc = "fetchActivities"
    /\ fpc = "threw"
    /\ ActivitiesFailed(FetchErrorMsg)
    /\ FetchDone
    /\ UNCHANGED <<srvVars, entryVars, readVars, now, storeVars, localStorage>>

\* const result = await storeActivitiesInFirebase(...) resolves;
\* syncResults.activities = { success: true, count: result.count, message }
SyncActivitiesStored ==
    /\ spc = "storeActivities"
    /\ stpc = "ret"
    /\ BeginStatus([syncResults EXCEPT !.activities = OKResult(storedCount)], FALSE)
    /\ stpc' = "idle"
    /\ UNCHANGED <<stAthleteId, stActivities, storedCount, stError, stobs>>
    /\ UNCHANGED <<fetchVars, srvVars, entryVars, readVars, now, dbVars, localStorage>>

\* await storeActivitiesInFirebase(...) rejects
SyncActivitiesStoreFailed ==
    /\ spc = "storeActivities"
    /\ stpc = "threw"
    /\ ActivitiesFailed(stError)
    /\ stpc' = "idle"
    /\ UNCHANGED <<stAthleteId, stActivities, storedCount, stError, stobs>>
    /\ UNCHANGED <<fetchVars, srvVars, entryVars, readVars, now, dbVars, localStorage>>

\* await storeSyncStatus(...) resolves, or rejects into its catch, which only
\* logs; onProgress('Data synchronization completed!');
\* return { success: syncResults.errors.length === 0, results: syncResults,
\*          errors: syncResults.errors, lastSyncTime: syncStatus.lastSyncTime }
SyncStatusStored ==
    \E stored \in BOOLEAN :
        /\ spc = "storeStatus"
        /\ stored => dbReady
        /\ IF stored
           THEN /\ athleteDocs' = SetAthleteField(athleteDocs, String(authData.athleteId),
                                                  "syncStatus", StatusData(syncStatus, now))
                /\ RoundTrip
           ELSE UNCHANGED <<athleteDocs, now>>
        /\ spc' = "returned"
        /\ syncReturn' = [threw |-> FALSE, error |-> "",
                          success |-> Len(syncResults.errors) = 0,
                          errors |-> syncResults.errors,
                          lastSyncTime |-> syncStatus.lastSyncTime,
                          results |-> syncResults]
        /\ Ended("status", ~stored)
        /\ progress' = Append(progress, "Data synchronization completed!")
        /\ iolog' = Append(iolog, <<StageIndex("status"), "done">>)
        /\ UNCHANGED <<authData, accessToken, syncResults, syncStatus>>
        /\ UNCHANGED <<fetchVars, srvVars, entryVars, readVars, dbReady, activityDocs, storeCallVars, stobs, localStorage>>

SyncStep ==
    \/ SyncStart
    \/ SyncRefreshed
    \/ SyncRefreshFailed
    \/ SyncErrorStatusStored
    \/ SyncGotAthlete
    \/ SyncGetAthleteFailed
    \/ SyncProfileStored
    \/ SyncProfileStoreFailed
    \/ SyncGotStats
    \/ SyncGetStatsFailed
    \/ SyncStatsStored
    \/ SyncStatsStoreFailed
    \/ SyncActivitiesFetched
    \/ SyncActivitiesFetchFailed
    \/ SyncActivitiesStored
    \/ SyncActivitiesStoreFailed
    \/ SyncStatusStored

-----------------------------------------------------------------------------
(* needsSync and getSyncStatus (utils/dataSyncService.js, firebaseService.js) *)

NoNeedsArgs == [athleteId |-> "", maxAgeHours |-> 0]

NoNeedsResult == [set |-> FALSE, value |-> FALSE, readFailed |-> FALSE, at |-> 0]

\* getSyncStatus: docSnap.exists() ? (data.syncStatus || null) : null
GetSyncStatus(athleteId) == AthleteDoc(athleteDocs, athleteId).syncStatus

\* (mutant) a status exactly maxAgeHours old counts as stale
IsStale_Inclusive(lastSync, maxAge) == lastSync <= maxAge

\* return lastSync < maxAge
IsStale(lastSync, maxAge) == lastSync < maxAge

\* (mutant) needsSync asks only whether there ever was a sync
NeedsSyncValue_OnlyNeverSynced(status, maxAgeHours, t) ==
    ~status.set \/ status.lastSyncTime = <<>>

\* The body of needsSync after getSyncStatus has resolved with status, at
\* Date.now() = t.
NeedsSyncValue(status, maxAgeHours, t) ==
    IF ~status.set \/ status.lastSyncTime = <<>>
    THEN TRUE
    ELSE IsStale(DateParse(status.lastSyncTime), t - maxAgeHours * MsPerHour)

\* needsSync(athleteId, maxAgeHours) up to await getSyncStatus(athleteId)
NeedsSyncStart ==
    /\ nspc = "idle"
    /\ \E athleteId \in {String(a) : a \in AthleteIds} :
       \E maxAgeHours \in 0..(MaxClockHours + 1) :
           nsArgs' = [athleteId |-> athleteId, maxAgeHours |-> maxAgeHours]
    /\ nspc' = "getSyncStatus"
    /\ nsResult' = NoNeedsResult
    /\ UNCHANGED <<querySnapshot, runningPRs, personalRecords, cyclingPRs>>
    /\ UNCHANGED <<fetchVars, srvVars, entryVars, now, storeVars, callerVars, iolog>>

\* getSyncStatus resolves; needsSync compares the dates and returns.
GetSyncStatusResolved ==
    /\ nspc = "getSyncStatus"
    /\ dbReady
    /\ nsResult' = [set |-> TRUE, readFailed |-> FALSE, at |-> now,
                    value |-> NeedsSyncValue(GetSyncStatus(nsArgs.athleteId),
                                             nsArgs.maxAgeHours, now)]
    /\ nspc' = "idle"
    /\ UNCHANGED <<nsArgs, querySnapshot, runningPRs, personalRecords, cyclingPRs>>
    /\ UNCHANGED <<fetchVars, srvVars, entryVars, now, storeVars, callerVars, iolog>>

\* getSyncStatus throws (db is not set, ensureAuthenticated or getDoc
\* rejects); catch (error) { return true }
GetSyncStatusFailed ==
    /\ nspc = "getSyncStatus"
    /\ \E msg \in StoreFailures \cup {NotInitializedMsg} : StoreFails(msg)
    /\ nsResult' = [set |-> TRUE, readFailed |-> TRUE, at |-> now, value |-> TRUE]
    /\ nspc' = "idle"
    /\ UNCHANGED <<nsArgs, querySnapshot, runningPRs, personalRecords, cyclingPRs>>
    /\ UNCHANGED <<fetchVars, srvVars, entryVars, now, storeVars, callerVars, iolog>>

-----------------------------------------------------------------------------
(* getPersonalRecords and getRunningPRs (utils/firebaseService.js) *)

\* null
Null == <<>>

RECURSIVE GCD(_, _)
GCD(a, b) == IF b = 0 THEN a ELSE GCD(b, a % b)

\* A number that is not whole, as the fraction <<n, d>> in lowest terms.
Frac(n, d) == LET g == GCD(n, d) IN <<n \div g, d \div g>>

\* x < y on numbers
Less(x, y) == x[1] * y[2] < y[1] * x[2]

\* const targets = [{ label: '400m', meters: 400 }, ...]
targets ==
    << [label |-> "400m",          meters |-> Frac(400, 1)],
       [label |-> "1km",           meters |-> Frac(1000, 1)],
       [label |-> "1 mile",        meters |-> Frac(160934, 100)],
       [label |-> "5k",            meters |-> Frac(5000, 1)],
       [label |-> "10k",           meters |-> Frac(10000, 1)],
       [label |-> "15k",           meters |-> Frac(15000, 1)],
       [label |-> "Half Marathon", meters |-> Frac(210975, 10)],
       [label |-> "Marathon",      meters |-> Frac(42195, 1)] >>

Labels == {targets[i].label : i \in DOMAIN targets}

Target(label) == CHOOSE t \in {targets[i] : i \in DOMAIN targets} : t.label = label

\* sport.toLowerCase()
ToLowerCase(s) ==
    CASE s = "Run"     -> "run"
      [] s = "Running" -> "running"
      [] s = "Ride"    -> "ride"
      [] s = "Unknown" -> "unknown"
      [] OTHER         -> s

\* const sport = a.sport_type || a.type || 'Unknown'
Sport(a) ==
    IF a.sport_type # "" THEN a.sport_type
    ELSE IF a.type # "" THEN a.type ELSE "Unknown"

\* { id: a.id, name: a.name, start_date: a.start_date }
Holder(a) == [id |-> a.id, name |-> a.name, start_date |-> a.start_date]

\* results[t.label] = { timeSeconds: null, activity: null, method: null }
NoPR == [timeSeconds |-> Null, activity |-> Null, method |-> Null]

\* Math.abs(a.distance - D) <= tol, with tol = D * 0.05
WithinTolerance(distance, D) ==
    LET diff == distance * D[2] - D[1]
    IN  20 * (IF diff < 0 THEN -diff ELSE diff) <= D[1]

\* a.moving_time * (D / a.distance)
Estimated(a, D) == Frac(a.moving_time * D[1], D[2] * a.distance)

\* results[t.label].timeSeconds === null || candidate < results[t.label].timeSeconds
Improves(candidate, result) ==
    result.timeSeconds = Null \/ Less(candidate, result.timeSeconds)

\* (mutant) an estimate never replaces an exact match
ScanTarget_PreferExact(result, a, D) ==
    IF WithinTolerance(a.distance, D)
    THEN IF result.method # "exact" \/ Improves(Frac(a.moving_time, 1), result)
         THEN [timeSeconds |-> Frac(a.moving_time, 1), activity |-> Holder(a),
               method |-> "exact"]
         ELSE result
    ELSE IF a.distance * D[2] >= D[1]
              /\ result.method # "exact" /\ Improves(Estimated(a, D), result)
         THEN [timeSeconds |-> Estimated(a, D), activity |-> Holder(a),
               method |-> "estimate"]
         ELSE result

\* The body of for (const t of targets) for one target and one run.
ScanTarget(result, a, D) ==
    IF WithinTolerance(a.distance, D)
    THEN IF Improves(Frac(a.moving_time, 1), result)
         THEN [timeSeconds |-> Frac(a.moving_time, 1), activity |-> Holder(a),
               method |-> "exact"]
         ELSE result
    ELSE IF a.distance * D[2] >= D[1] /\ Improves(Estimated(a, D), result)
         THEN [timeSeconds |-> Estimated(a, D), activity |-> Holder(a),
               method |-> "estimate"]
         ELSE result

\* if (sport is not 'run' or 'running') return;
\* if (!a.distance || !a.moving_time) return;
IsScannedRun(a) ==
    /\ ToLowerCase(Sport(a)) \in {"run", "running"}
    /\ a.distance # 0
    /\ a.moving_time # 0

\* let longest = { distance: 0, activity: null }
NoLongest == [distance |-> 0, activity |-> Null]

\* The callback of querySnapshot.forEach in getRunningPRs.
ScanRun(results, a) ==
    IF ~IsScannedRun(a) THEN results
    ELSE [ prs |-> [l \in Labels |-> ScanTarget(results.prs[l], a, Target(l).meters)],
           Longest |-> IF a.distance > results.Longest.distance
                       THEN [distance |-> a.distance, activity |-> Holder(a)]
                       ELSE results.Longest ]

RECURSIVE RunningPRsOf(_)
\* What getRunningPRs computes from a query snapshot.
RunningPRsOf(snapshot) ==
    IF snapshot = <<>> THEN [prs |-> [l \in Labels |-> NoPR], Longest |-> NoLongest]
    ELSE ScanRun(RunningPRsOf(SubSeq(snapshot, 1, Len(snapshot) - 1)),
                 snapshot[Len(snapshot)])

\* const targets = [{ label: '5 mile', meters: 1609.34 * 5 }, ...] of getCyclingPRs
cyclingTargets ==
    << [label |-> "5 mile",   meters |-> Frac(80467, 10)],
       [label |-> "10K",      meters |-> Frac(10000, 1)],
       [label |-> "10 mile",  meters |-> Frac(160934, 10)],
       [label |-> "20K",      meters |-> Frac(20000, 1)],
       [label |-> "30K",      meters |-> Frac(30000, 1)],
       [label |-> "40K",      meters |-> Frac(40000, 1)],
       [label |-> "50K",      meters |-> Frac(50000, 1)],
       [label |-> "80K",      meters |-> Frac(80000, 1)],
       [label |-> "50 mile",  meters |-> Frac(80467, 1)],
       [label |-> "90K",      meters |-> Frac(90000, 1)],
       [label |-> "100K",     meters |-> Frac(100000, 1)],
       [label |-> "100 mile", meters |-> Frac(160934, 1)],
       [label |-> "180K",     meters |-> Frac(180000, 1)] >>

CyclingLabels == {cyclingTargets[i].label : i \in DOMAIN cyclingTargets}

CyclingTarget(label) ==
    CHOOSE t \in {cyclingTargets[i] : i \in DOMAIN cyclingTargets} : t.label = label

\* if (sLower !== 'ride' && sLower !== 'cycling' && sLower !== 'ride') return;
\* if (!a.distance || !a.moving_time) return;
IsScannedRide(a) ==
    /\ ToLowerCase(Sport(a)) \in {"ride", "cycling"}
    /\ a.distance # 0
    /\ a.moving_time # 0

\* let biggestClimb = { elevation: 0, activity: null }
NoClimb == [elevation |-> 0, activity |-> Null]

\* (mutant) the total keeps the largest climb instead of adding the climbs up
AddClimb_KeepsMax(total, climb) == IF climb > total THEN climb ELSE total

\* totalElevationGain += climb
AddClimb(total, climb) == total + climb

\* The callback of querySnapshot.forEach in getCyclingPRs; climb is
\* a.total_elevation_gain || 0.
ScanRide(results, a) ==
    IF ~IsScannedRide(a) THEN results
    ELSE LET climb == a.total_elevation_gain
         IN  [ prs |-> [l \in CyclingLabels |->
                           ScanTarget(results.prs[l], a, CyclingTarget(l).meters)],
               Longest |-> IF a.distance > results.Longest.distance
                           THEN [distance |-> a.distance, activity |-> Holder(a)]
                           ELSE results.Longest,
               BiggestClimb |-> IF climb > results.BiggestClimb.elevation
                                THEN [elevation |-> climb, activity |-> Holder(a)]
                                ELSE results.BiggestClimb,
               ElevationGain |-> AddClimb(results.ElevationGain, climb) ]

RECURSIVE CyclingPRsOf(_)
\* What getCyclingPRs computes from a query snapshot.
CyclingPRsOf(snapshot) ==
    IF snapshot = <<>>
    THEN [prs |-> [l \in CyclingLabels |-> NoPR], Longest |-> NoLongest,
          BiggestClimb |-> NoClimb, ElevationGain |-> 0]
    ELSE ScanRide(CyclingPRsOf(SubSeq(snapshot, 1, Len(snapshot) - 1)),
                  snapshot[Len(snapshot)])

\* { value: 0, activity: null }
NoRecord == [value |-> 0, activity |-> Null]

\* sports[sport] = { total_activities: 0, longest_distance: ..., ... }
NoSportRecords ==
    [total_activities |-> 0, longest_distance |-> NoRecord,
     max_average_speed |-> NoRecord, max_total_elevation_gain |-> NoRecord]

\* (mutant) an equal value replaces the record
Exceeds_OrEqual(value, record) == value >= record.value

\* a.distance > s.longest_distance.value, and the like
Exceeds(value, record) == value > record.value

\* if (typeof v === 'number' && v > record.value) record = { value: v, activity: {...} }
Record(record, value, a) ==
    IF Exceeds(value, record) THEN [value |-> value, activity |-> Holder(a)] ELSE record

\* The callback of querySnapshot.forEach in getPersonalRecords.
ScanActivity(sports, a) ==
    LET sport == Sport(a)
        s == IF sport \in DOMAIN sports THEN sports[sport] ELSE NoSportRecords
        new == [ total_activities |-> s.total_activities + 1,
                 longest_distance |-> Record(s.longest_distance, a.distance, a),
                 max_average_speed |-> Record(s.max_average_speed, a.average_speed, a),
                 max_total_elevation_gain |->
                     Record(s.max_total_elevation_gain, a.total_elevation_gain, a) ]
    IN  [x \in DOMAIN sports \cup {sport} |-> IF x = sport THEN new ELSE sports[x]]

RECURSIVE PersonalRecordsOf(_)
\* What getPersonalRecords computes from a query snapshot.
PersonalRecordsOf(snapshot) ==
    IF snapshot = <<>> THEN <<>>
    ELSE ScanActivity(PersonalRecordsOf(SubSeq(snapshot, 1, Len(snapshot) - 1)),
                      snapshot[Len(snapshot)])

NotAsked == [set |-> FALSE, threw |-> FALSE, value |-> Null]

\* getRunningPRs(athleteId) resolves with the records of the snapshot
GetRunningPRs ==
    /\ dbReady
    /\ runningPRs' = [set |-> TRUE, threw |-> FALSE, value |-> RunningPRsOf(querySnapshot)]
    /\ UNCHANGED <<nspc, nsArgs, nsResult, querySnapshot, personalRecords, cyclingPRs>>
    /\ UNCHANGED <<fetchVars, srvVars, entryVars, now, storeVars, callerVars, iolog>>

\* getRunningPRs(athleteId) throws
GetRunningPRsFailed ==
    /\ \E msg \in StoreFailures \cup {NotInitializedMsg} : StoreFails(msg)
    /\ runningPRs' = [set |-> TRUE, threw |-> TRUE, value |-> Null]
    /\ UNCHANGED <<nspc, nsArgs, nsResult, querySnapshot, personalRecords, cyclingPRs>>
    /\ UNCHANGED <<fetchVars, srvVars, entryVars, now, storeVars, callerVars, iolog>>

\* getPersonalRecords(athleteId) resolves with the records of the snapshot
GetPersonalRecords ==
    /\ dbReady
    /\ personalRecords' =
           [set |-> TRUE, threw |-> FALSE, value |-> PersonalRecordsOf(querySnapshot)]
    /\ UNCHANGED <<nspc, nsArgs, nsResult, querySnapshot, runningPRs, cyclingPRs>>
    /\ UNCHANGED <<fetchVars, srvVars, entryVars, now, storeVars, callerVars, iolog>>

\* getPersonalRecords(athleteId) throws
GetPersonalRecordsFailed ==
    /\ \E msg \in StoreFailures \cup {NotInitializedMsg} : StoreFails(msg)
    /\ personalRecords' = [set |-> TRUE, threw |-> TRUE, value |-> Null]
    /\ UNCHANGED <<nspc, nsArgs, nsResult, querySnapshot, runningPRs, cyclingPRs>>
    /\ UNCHANGED <<fetchVars, srvVars, entryVars, now, storeVars, callerVars, iolog>>

\* getCyclingPRs(athleteId) resolves with the records of the snapshot
GetCyclingPRs ==
    /\ dbReady
    /\ cyclingPRs' = [set |-> TRUE, threw |-> FALSE, value |-> CyclingPRsOf(querySnapshot)]
    /\ UNCHANGED <<nspc, nsArgs, nsResult, querySnapshot, runningPRs, personalRecords>>
    /\ UNCHANGED <<fetchVars, srvVars, entryVars, now, storeVars, callerVars, iolog>>

\* getCyclingPRs(athleteId) throws
GetCyclingPRsFailed ==
    /\ \E msg \in StoreFailures \cup {NotInitializedMsg} : StoreFails(msg)
    /\ cyclingPRs' = [set |-> TRUE, threw |-> TRUE, value |-> Null]
    /\ UNCHANGED <<nspc, nsArgs, nsResult, querySnapshot, runningPRs, personalRecords>>
    /\ UNCHANGED <<fetchVars, srvVars, entryVars, now, storeVars, callerVars, iolog>>

\* No query of the stored data was made yet.
ReadIdle ==
    /\ nspc = "idle"
    /\ nsArgs = NoNeedsArgs
    /\ nsResult = NoNeedsResult
    /\ querySnapshot = <<>>
    /\ runningPRs = NotAsked
    /\ personalRecords = NotAsked
    /\ cyclingPRs = NotAsked

-----------------------------------------------------------------------------
(* storeActivitiesInFirebase called by two syncs at once: each call has its  *)
(* own locals, and the awaits of the two interleave.                         *)

Writers == {1, 2}

\* The locals of a call that has not started.
NoWriter == [pc |-> "idle", athleteId |-> "", activities |-> <<>>, storedCount |-> 0,
             written |-> {}]

\* What POST /oauth/token answers (response.data of exchangeToken).
TokenResponse(athleteId, expiresAt) ==
    [access_token |-> "access-1", refresh_token |-> "refresh-1",
     expires_at |-> expiresAt, athlete |-> [id |-> athleteId]]

NoTokenResponse == TokenResponse(0, -1)

\* handleCallback of the Callback page before its effect has run.
NoCallback == [pc |-> "idle", data |-> NoTokenResponse, error |-> ""]

\* The status step of a sync that has not reached it.
NoStatusWriter == [pc |-> "idle", lastSyncTime |-> <<>>, success |-> FALSE]

\* Sync w calls storeActivitiesInFirebase(athleteId, activities): db is set,
\* await ensureAuthenticated() resolves, let storedCount = 0
ConcStart(w, athleteId, activities) ==
    /\ writers[w].pc = "idle"
    /\ dbReady
    /\ writers' = [writers EXCEPT ![w] =
                       [pc |-> IF activities = <<>> THEN "ret" ELSE "write",
                        athleteId |-> athleteId, activities |-> activities,
                        storedCount |-> 0, written |-> {}]]
    /\ UNCHANGED <<qpc, dataTypes, qTypes, qResults, apc, statusWriters, callback>>
    /\ UNCHANGED <<fetchVars, srvVars, readVars, now, storeVars, callerVars, iolog>>

\* await setDoc(...) of call w resolves; storedCount++
ConcWriteOK(w) ==
    /\ writers[w].pc = "write"
    /\ now + 1 < ClockEnd
    /\ LET me       == writers[w]
           activity == me.activities[me.storedCount + 1]
           path     == ActivityPath(me.athleteId, activity.id)
           data     == ActivityData(activity, now)
       IN  /\ activityDocs' = SetActivityDoc(activityDocs, path, data)
           /\ writers' = [writers EXCEPT ![w] =
                              [me EXCEPT !.storedCount = @ + 1,
                                         !.written = @ \cup {<<activity.id, data>>},
                                         !.pc = IF me.storedCount + 1 = Len(me.activities)
                                                THEN "ret" ELSE "write"]]
    /\ RoundTrip
    /\ UNCHANGED <<qpc, dataTypes, qTypes, qResults, apc, statusWriters, callback>>
    /\ UNCHANGED <<fetchVars, srvVars, readVars, dbReady, athleteDocs, storeCallVars, stobs,
                   callerVars, iolog>>

\* await setDoc(...) of call w rejects: catch (error) { throw error }
ConcWriteFail(w) ==
    /\ writers[w].pc = "write"
    /\ writers' = [writers EXCEPT ![w].pc = "threw"]
    /\ UNCHANGED <<qpc, dataTypes, qTypes, qResults, apc, statusWriters, callback>>
    /\ UNCHANGED <<fetchVars, srvVars, readVars, now, storeVars, callerVars, iolog>>

-----------------------------------------------------------------------------
(* quickSync (utils/dataSyncService.js) *)

\* const results = {}
NoQuickResults == [athlete |-> NullResult, stats |-> NullResult, activities |-> NullResult]

\* The cases of switch (dataType).
KnownDataTypes == {"athlete", "stats", "activities"}

\* The stage a dataType stands for.
StageOfType(dataType) ==
    CASE dataType = "athlete"    -> "profile"
      [] dataType = "stats"      -> "stats"
      [] dataType = "activities" -> "activities"

\* (mutant) the loop takes the last of the remaining entries first
SkipUnknown_LastFirst(types) ==
    LET kept == SelectSeq(types, LAMBDA t : t \in KnownDataTypes)
    IN  [i \in 1..Len(kept) |-> kept[Len(kept) + 1 - i]]

RECURSIVE SkipUnknown(_)
\* default: console.warn(`Unknown data type: ${dataType}`), and the loop goes on
SkipUnknown(types) ==
    IF types = <<>> \/ Head(types) \in KnownDataTypes THEN types
    ELSE SkipUnknown(Tail(types))

\* What no step of quickSync touches.
quickOthers == <<apc, writers, statusWriters, callback, srvVars, readVars, spc, syncResults, syncReturn, syncStatus, sobs>>

\* What no step of quickSync after its start touches.
quickFrame == <<dataTypes, quickOthers>>

\* for (const dataType of dataTypes), from the given rest of the list on, up
\* to the next await: onProgress and the API call of the dataType, or
\* return results after the last one. fetchEnds: the step ends a fetch.
QuickDispatch(types, results, log, fetchEnds) ==
    LET rest == SkipUnknown(types)
    IN  /\ qTypes' = rest
        /\ qResults' = results
        /\ IF rest = <<>>
           THEN /\ qpc' = "returned"
                /\ progress' = progress
                /\ iolog' = log
                /\ IF fetchEnds THEN FetchDone ELSE UNCHANGED fetchVars
           ELSE IF Head(rest) = "athlete"
           THEN /\ qpc' = "getAthlete"
                /\ progress' = Append(progress, "Syncing athlete profile...")
                /\ iolog' = Append(log, <<StageIndex("profile"), "api">>)
                /\ IF fetchEnds THEN FetchDone ELSE UNCHANGED fetchVars
           ELSE IF Head(rest) = "stats"
           THEN /\ qpc' = "getStats"
                /\ progress' = Append(progress, "Syncing athlete stats...")
                /\ iolog' = Append(log, <<StageIndex("stats"), "api">>)
                /\ IF fetchEnds THEN FetchDone ELSE UNCHANGED fetchVars
           ELSE /\ qpc' = "fetchActivities"
                /\ progress' = Append(progress, "Syncing activities...")
                /\ iolog' = log
                /\ FetchStart(DefaultPerPage)

\* The dataTypes lists the callers pass; ['activities'] is the default.
DataTypeLists ==
    { <<"activities">>,
      <<"athlete">>,
      <<"stats", "athlete">>,
      <<"stats", "stats">>,
      <<"athlete", "stats", "activities">>,
      <<"segments", "stats">> }

\* (mutant) quickSync does not look for the athlete id
QuickRejects_NoAthleteCheck(ad) == ~ad.present \/ ad.accessToken = ""

\* if (!authData || !authData.accessToken) throw ...; if (!athleteId) throw ...
QuickRejects(ad) == ~ad.present \/ ad.accessToken = "" \/ ad.athleteId = 0

\* quickSync(authData, dataTypes, onProgress) up to its first await:
\* if (!authData || !authData.accessToken) throw ...; if (!athleteId) throw ...;
\* if (isTokenExpired() && authData.refreshToken) { onProgress; await refreshAccessToken(...) }
\* else the loop over dataTypes starts
QuickStart ==
    \E ad \in AuthDatas : \E types \in DataTypeLists :
        /\ qpc = "idle" /\ spc = "idle" /\ apc = "idle"
        /\ fpc = "idle" /\ stpc = "idle"
        /\ authData' = ad
        /\ dataTypes' = types
        /\ IF QuickRejects(ad)
           THEN /\ qpc' = "threw"
                /\ accessToken' = IF ad.present THEN ad.accessToken ELSE ""
                /\ UNCHANGED <<qTypes, qResults, progress, iolog, fetchVars>>
           ELSE /\ accessToken' = ad.accessToken
                /\ IF isTokenExpired /\ ad.refreshToken # ""
                   THEN /\ qpc' = "refresh"
                        /\ qTypes' = types
                        /\ qResults' = NoQuickResults
                        /\ progress' = <<"Refreshing access token...">>
                        /\ iolog' = <<<<StageIndex("refresh"), "api">>>>
                        /\ UNCHANGED fetchVars
                   ELSE QuickDispatch(types, NoQuickResults, <<>>, FALSE)
        /\ UNCHANGED <<quickOthers, now, storeVars, localStorage>>

\* const newAuthData = await refreshAccessToken(...) resolves;
\* storeAuthData(newAuthData); accessToken = newAuthData.access_token
QuickRefreshed ==
    /\ qpc = "refresh"
    /\ storeAuthData(RefreshedAuthData)
    /\ accessToken' = RefreshedAuthData.access_token
    /\ QuickDispatch(qTypes, qResults, Append(iolog, <<StageIndex("refresh"), "done">>), FALSE)
    /\ UNCHANGED <<quickFrame, authData, now, storeVars>>

\* await refreshAccessToken(...) rejects: nothing catches it
QuickRefreshFailed ==
    /\ qpc = "refresh"
    /\ qpc' = "threw"
    /\ iolog' = Append(iolog, <<StageIndex("refresh"), "done">>)
    /\ UNCHANGED <<qTypes, qResults, authData, accessToken, progress, fetchVars>>
    /\ UNCHANGED <<quickFrame, now, storeVars, localStorage>>

\* The log when the dataType at the head of the list ends.
QuickEnds == Append(iolog, <<StageIndex(StageOfType(Head(qTypes))), "done">>)

\* (mutant) a failure is recorded for every data type
QuickResult_FailsAll(result) ==
    IF result.success
    THEN [qResults EXCEPT ![Head(qTypes)] = result]
    ELSE [t \in KnownDataTypes |-> result]

\* results[dataType] = { success: true } or { success: false, error }
QuickResult(result) == [qResults EXCEPT ![Head(qTypes)] = result]

\* const athleteProfile = await getAthlete(accessToken) resolves;
\* await storeAthleteProfile(String(athleteId), athleteProfile)
QuickGotAthlete ==
    /\ qpc = "getAthlete"
    /\ qpc' = "storeProfile"
    /\ iolog' = Append(iolog, <<StageIndex("profile"), "write">>)
    /\ UNCHANGED <<qTypes, qResults, authData, accessToken, progress, fetchVars>>
    /\ UNCHANGED <<quickFrame, now, storeVars, localStorage>>

\* await getAthlete(accessToken) rejects: catch (error)
QuickGetAthleteFailed ==
    /\ qpc = "getAthlete"
    /\ QuickDispatch(Tail(qTypes), QuickResult(FailedResult(ApiFailedMsg)), QuickEnds, FALSE)
    /\ UNCHANGED <<quickFrame, authData, accessToken, now, storeVars, localStorage>>

\* await storeAthleteProfile(...) resolves; results.athlete = { success: true }
QuickProfileStored ==
    /\ qpc = "storeProfile"
    /\ dbReady
    /\ athleteDocs' = SetAthleteField(athleteDocs, String(authData.athleteId), "profile",
                                      ProfileData(SrvProfile(authData.athleteId), now))
    /\ RoundTrip
    /\ QuickDispatch(Tail(qTypes), QuickResult(OKResult(0)), QuickEnds, FALSE)
    /\ UNCHANGED <<quickFrame, authData, accessToken, localStorage>>
    /\ UNCHANGED <<dbReady, activityDocs, storeCallVars, stobs>>

\* await storeAthleteProfile(...) rejects: catch (error)
QuickProfileStoreFailed ==
    \E msg \in StoreFailures \cup {NotInitializedMsg} :
        /\ qpc = "storeProfile"
        /\ StoreFails(msg)
        /\ QuickDispatch(Tail(qTypes), QuickResult(FailedResult(msg)), QuickEnds, FALSE)
        /\ UNCHANGED <<quickFrame, authData, accessToken, now, storeVars, localStorage>>

\* const athleteStats = await getAthleteStats(accessToken, athleteId) resolves;
\* await storeAthleteStats(String(athleteId), athleteStats)
QuickGotStats ==
    /\ qpc = "getStats"
    /\ qpc' = "storeStats"
    /\ iolog' = Append(iolog, <<StageIndex("stats"), "write">>)
    /\ UNCHANGED <<qTypes, qResults, authData, accessToken, progress, fetchVars>>
    /\ UNCHANGED <<quickFrame, now, storeVars, localStorage>>

\* await getAthleteStats(...) rejects: catch (error)
QuickGetStatsFailed ==
    /\ qpc = "getStats"
    /\ QuickDispatch(Tail(qTypes), QuickResult(FailedResult(ApiFailedMsg)), QuickEnds, FALSE)
    /\ UNCHANGED <<quickFrame, authData, accessToken, now, storeVars, localStorage>>

\* await storeAthleteStats(...) resolves; results.stats = { success: true }
QuickStatsStored ==
    /\ qpc = "storeStats"
    /\ dbReady
    /\ athleteDocs' = SetAthleteField(athleteDocs, String(authData.athleteId), "stats",
                                      StatsData(SrvStats, now))
    /\ RoundTrip
    /\ QuickDispatch(Tail(qTypes), QuickResult(OKResult(0)), QuickEnds, FALSE)
    /\ UNCHANGED <<quickFrame, authData, accessToken, localStorage>>
    /\ UNCHANGED <<dbReady, activityDocs, storeCallVars, stobs>>

\* await storeAthleteStats(...) rejects: catch (error)
QuickStatsStoreFailed ==
    \E msg \in StoreFailures \cup {NotInitializedMsg} :
        /\ qpc = "storeStats"
        /\ StoreFails(msg)
        /\ QuickDispatch(Tail(qTypes), QuickResult(FailedResult(msg)), QuickEnds, FALSE)
        /\ UNCHANGED <<quickFrame, authData, accessToken, now, storeVars, localStorage>>

\* activities = await getAthleteActivitiesLast3Months(accessToken) resolves;
\* await storeActivitiesInFirebase(String(athleteId), activities)
QuickActivitiesFetched ==
    /\ qpc = "fetchActivities"
    /\ fpc = "ret"
    /\ qpc' = "storeActivities"
    /\ StoreStart(String(authData.athleteId),
                  [i \in 1..Len(allActivities) |-> SrvActivity(allActivities[i])])
    /\ FetchDone
    /\ UNCHANGED <<qTypes, qResults, authData, accessToken, progress, iolog>>
    /\ UNCHANGED <<quickFrame, now, dbVars, localStorage>>

\* await getAthleteActivitiesLast3Months(accessToken) rejects: catch (error)
QuickActivitiesFetchFailed ==
    /\ qpc = "fetchActivities"
    /\ fpc = "threw"
    /\ QuickDispatch(Tail(qTypes), QuickResult(FailedResult(FetchErrorMsg)), QuickEnds, TRUE)
    /\ UNCHANGED <<quickFrame, authData, accessToken, now, storeVars, localStorage>>

\* const result = await storeActivitiesInFirebase(...) resolves;
\* results.activities = { success: true, count: result.count }
QuickActivitiesStored ==
    /\ qpc = "storeActivities"
    /\ stpc = "ret"
    /\ QuickDispatch(Tail(qTypes), QuickResult(OKResult(storedCount)), QuickEnds, FALSE)
    /\ stpc' = "idle"
    /\ UNCHANGED <<stAthleteId, stActivities, storedCount, stError, stobs>>
    /\ UNCHANGED <<quickFrame, authData, accessToken, now, dbVars, localStorage>>

\* await storeActivitiesInFirebase(...) rejects: catch (error)
QuickActivitiesStoreFailed ==
    /\ qpc = "storeActivities"
    /\ stpc = "threw"
    /\ QuickDispatch(Tail(qTypes), QuickResult(FailedResult(stError)), QuickEnds, FALSE)
    /\ stpc' = "idle"
    /\ UNCHANGED <<stAthleteId, stActivities, storedCount, stError, stobs>>
    /\ UNCHANGED <<quickFrame, authData, accessToken, now, dbVars, localStorage>>

QuickStep ==
    \/ QuickStart
    \/ QuickRefreshed
    \/ QuickRefreshFailed
    \/ QuickGotAthlete
    \/ QuickGetAthleteFailed
    \/ QuickProfileStored
    \/ QuickProfileStoreFailed
    \/ QuickGotStats
    \/ QuickGetStatsFailed
    \/ QuickStatsStored
    \/ QuickStatsStoreFailed
    \/ QuickActivitiesFetched
    \/ QuickActivitiesFetchFailed
    \/ QuickActivitiesStored
    \/ QuickActivitiesStoreFailed

-----------------------------------------------------------------------------
(* autoSync (utils/dataSyncService.js) *)

\* The maxAgeHours the callers of autoSync pass.
AutoMaxAges == {1}

\* autoSync(authData, maxAgeHours, onProgress) up to its first await:
\* if (!athleteId) throw ...; await needsSync(String(athleteId), maxAgeHours)
AutoStart ==
    \E ad \in AuthDatas : \E maxAgeHours \in AutoMaxAges :
        /\ apc = "idle" /\ spc = "idle" /\ qpc = "idle"
        /\ nspc = "idle"
        /\ authData' = ad
        /\ IF ~ad.present \/ ad.athleteId = 0
           THEN /\ apc' = "threw"
                /\ UNCHANGED <<nspc, nsArgs, nsResult>>
           ELSE /\ apc' = "needs"
                /\ nspc' = "getSyncStatus"
                /\ nsArgs' = [athleteId |-> String(ad.athleteId), maxAgeHours |-> maxAgeHours]
                /\ nsResult' = NoNeedsResult
        /\ UNCHANGED <<qpc, dataTypes, qTypes, qResults, writers, statusWriters, callback, querySnapshot, runningPRs, personalRecords, cyclingPRs>>
        /\ UNCHANGED <<spc, accessToken, syncResults, syncReturn, syncStatus, sobs, progress>>
        /\ UNCHANGED <<fetchVars, srvVars, now, storeVars, localStorage, iolog>>

\* const shouldSync = await needsSync(...) resolves;
\* if (!shouldSync) { onProgress('Data is up to date, no sync needed'); return null }
\* onProgress('Data sync needed, ...'); return await syncAllDataToFirebase(authData, onProgress)
AutoDecide ==
    /\ apc = "needs"
    /\ nspc = "idle" /\ nsResult.set
    /\ IF nsResult.value
       THEN /\ apc' = "sync"
            /\ SyncCall(authData, <<"Data sync needed, starting synchronization...">>)
       ELSE /\ apc' = "null"
            /\ progress' = <<"Data is up to date, no sync needed">>
            /\ UNCHANGED <<spc, authData, accessToken, syncResults, syncReturn, syncStatus,
                           sobs, iolog>>
    /\ UNCHANGED <<qpc, dataTypes, qTypes, qResults, writers, statusWriters, callback>>
    /\ UNCHANGED <<fetchVars, srvVars, readVars, now, storeVars, localStorage>>

AutoStep == AutoStart \/ AutoDecide

\* No quickSync and no autoSync call was made yet.
EntryIdle ==
    /\ qpc = "idle"
    /\ dataTypes = <<>>
    /\ qTypes = <<>>
    /\ qResults = NoQuickResults
    /\ apc = "idle"
    /\ writers = [w \in Writers |-> NoWriter]
    /\ statusWriters = [w \in Writers |-> NoStatusWriter]
    /\ callback = NoCallback

-----------------------------------------------------------------------------
(* One call of syncAllDataToFirebase(authData, onProgress), with the store   *)
(* and the session as the earlier life of the page left them, while time     *)
(* passes.                                                                   *)

SyncInit ==
    /\ FetchIdle
    /\ srvSizes = {0, 1, 2}
    /\ now = 0
    /\ dbReady \in BOOLEAN
    /\ athleteDocs = <<>>
    /\ activityDocs = <<>>
    /\ StoreCallIdle
    /\ stobs = StoreObsInit
    /\ localStorage \in {StoredSession(e) : e \in {-1, 0, 6 * 60 * 60}}
    /\ SyncIdle
    /\ ReadIdle
    /\ EntryIdle

\* Hours pass before the call; during it the clock moves with the writes. The
\* stored expires_at is missing, is the second the run starts in, or lies
\* six hours ahead.
SyncNext == SyncStep \/ FetchStep \/ StoreStep \/ (spc = "idle" /\ Tick)

SyncSpec == SyncInit /\ [][SyncNext]_vars

-----------------------------------------------------------------------------
(* Calls of storeActivitiesInFirebase on their own, one after the other,     *)
(* with lists of activities that may repeat and overlap.                     *)

\* The activities a caller hands over: what Strava lists for an id, with a
\* name that the athlete may have edited since.
InputActivity(id, name) ==
    [ id |-> id, name |-> name, type |-> "Run", sport_type |-> "",
      distance |-> 5000, moving_time |-> 1500, total_elevation_gain |-> 10,
      average_speed |-> 3, start_date |-> id ]

InputActivities == {InputActivity(id, name) : id \in {1, 2}, name \in {"Morning Run", "Renamed"}}

RECURSIVE SeqsUpTo(_, _)
\* The sequences over S of length at most n.
SeqsUpTo(S, n) ==
    IF n = 0 THEN {<<>>}
    ELSE LET shorter == SeqsUpTo(S, n - 1)
         IN  shorter \cup {Append(q, x) : q \in shorter, x \in S}

\* The caller awaits the call and calls again.
StoreCall ==
    /\ stpc \in {"idle", "ret", "threw"}
    /\ stobs.calls < MaxStoreCalls
    /\ \E athleteId \in {String(a) : a \in AthleteIds} :
       \E activities \in SeqsUpTo(InputActivities, MaxBatch) :
           StoreStart(athleteId, activities)
    /\ UNCHANGED <<fetchVars, srvVars, entryVars, readVars, now, dbVars, callerVars, iolog>>

StoreInit ==
    /\ FetchIdle
    /\ srvSizes = {0}
    /\ now = 0
    /\ dbReady \in BOOLEAN
    /\ athleteDocs = <<>>
    /\ activityDocs = <<>>
    /\ StoreCallIdle
    /\ stobs = StoreObsInit
    /\ localStorage = StoredSession(-1)
    /\ SyncIdle
    /\ ReadIdle
    /\ EntryIdle

StoreNext == StoreCall \/ StoreStep

StoreSpec == StoreInit /\ [][StoreNext]_vars

-----------------------------------------------------------------------------
(* A call of getAthleteActivitiesSince(accessToken, afterTimestamp) on its   *)
(* own, against a server that answers each request as it likes.              *)

FetchInit ==
    /\ fpc = "send"
    /\ perPage = DefaultPerPage
    /\ page = 1
    /\ attempt = 0
    /\ response = NoResponse
    /\ allActivities = <<>>
    /\ fobs = FetchObsInit
    /\ srvSizes = {0, 37, DefaultPerPage - 1, DefaultPerPage}
    /\ now = 0
    /\ dbReady = TRUE
    /\ athleteDocs = <<>>
    /\ activityDocs = <<>>
    /\ StoreCallIdle
    /\ stobs = StoreObsInit
    /\ localStorage = StoredSession(-1)
    /\ SyncIdle
    /\ ReadIdle
    /\ EntryIdle

FetchNext == FetchStep

FetchSpec == FetchInit /\ [][FetchNext]_vars

\* The same call when every request is answered and every sleep ends: a step
\* that can be taken is taken.
FetchLiveSpec == FetchInit /\ [][FetchNext]_vars /\ WF_vars(FetchNext)

-----------------------------------------------------------------------------
(* Calls of needsSync against the status an earlier sync left, while hours   *)
(* pass.                                                                     *)

\* The times at which the earlier sync ended: now, or whole hours ago, to
\* the millisecond, a millisecond earlier or a millisecond later.
PersistedTimes ==
    {t \in {d - k * MsPerHour : k \in 0..(MaxClockHours + 1), d \in {-1, 0, 1}} : t <= 0}

\* The sync status as the earlier sync built it.
EarlierStatus(t, ok) ==
    [lastSyncTime |-> ToISOString(t), success |-> ok,
     errors |-> IF ok THEN <<>> ELSE <<ApiFailedMsg>>, hasResults |-> ok,
     syncResults |-> IF ok
                     THEN [athlete |-> OKResult(0), stats |-> OKResult(0),
                           activities |-> OKResult(1), errors |-> <<>>]
                     ELSE EmptySyncResults]

\* The athlete documents an earlier session can have left for athlete 7.
EarlierAthleteDocs ==
    {<<>>, SetAthleteField(<<>>, "7", "profile", ProfileData(SrvProfile(7), -1))}
        \cup {SetAthleteField(<<>>, "7", "syncStatus", StatusData(EarlierStatus(t, ok), t)) :
                  t \in PersistedTimes, ok \in BOOLEAN}

NeedsInit ==
    /\ FetchIdle
    /\ srvSizes = {0}
    /\ now = 0
    /\ dbReady \in BOOLEAN
    /\ athleteDocs \in EarlierAthleteDocs
    /\ activityDocs = <<>>
    /\ StoreCallIdle
    /\ stobs = StoreObsInit
    /\ localStorage = StoredSession(-1)
    /\ SyncIdle
    /\ ReadIdle
    /\ EntryIdle

NeedsNext == NeedsSyncStart \/ GetSyncStatusResolved \/ GetSyncStatusFailed \/ Tick

NeedsSpec == NeedsInit /\ [][NeedsNext]_vars

-----------------------------------------------------------------------------
(* One call of syncAllDataToFirebase, quickSync or autoSync, against the     *)
(* documents an earlier sync of athlete 7 left; the stored session is        *)
(* missing its expires_at or is good for six more hours.                     *)

\* What an earlier sync that ended at t left: the three keys of the athlete
\* document and an activity the server no longer lists on its first page.
EarlierSyncAt(t) ==
    [ athleteDocs |->
          SetAthleteField(
              SetAthleteField(
                  SetAthleteField(<<>>, "7", "profile", ProfileData(SrvProfile(7), t)),
                  "7", "stats", StatsData(SrvStats, t)),
              "7", "syncStatus", StatusData(EarlierStatus(t, TRUE), t)),
      activityDocs |->
          SetActivityDoc(<<>>, ActivityPath("7", 3), ActivityData(SrvActivity(3), t)) ]

\* No earlier sync, one that ended a millisecond ago, or one that ended more
\* than an hour ago.
EarlierSyncs ==
    {[athleteDocs |-> <<>>, activityDocs |-> <<>>]}
        \cup {EarlierSyncAt(t) : t \in {-1, -MsPerHour - 1}}

EntryInit ==
    /\ FetchIdle
    /\ srvSizes = {0, 2}
    /\ now = 0
    /\ dbReady \in BOOLEAN
    /\ \E earlier \in EarlierSyncs :
           /\ athleteDocs = earlier.athleteDocs
           /\ activityDocs = earlier.activityDocs
    /\ StoreCallIdle
    /\ stobs = StoreObsInit
    /\ localStorage \in {StoredSession(e) : e \in {-1, 6 * 60 * 60}}
    /\ SyncIdle
    /\ ReadIdle
    /\ EntryIdle

EntryNext ==
    \/ SyncStep
    \/ QuickStep
    \/ AutoStep
    \/ GetSyncStatusResolved
    \/ GetSyncStatusFailed
    \/ FetchStep
    \/ StoreStep

EntrySpec == EntryInit /\ [][EntryNext]_vars

-----------------------------------------------------------------------------
(* Two syncs of athlete 7 store their activities at the same time, over the  *)
(* documents an earlier sync may have left.                                  *)

ConcInit ==
    /\ FetchIdle
    /\ srvSizes = {0}
    /\ now = 0
    /\ dbReady = TRUE
    /\ \E earlier \in EarlierSyncs :
           /\ athleteDocs = earlier.athleteDocs
           /\ activityDocs = earlier.activityDocs
    /\ StoreCallIdle
    /\ stobs = StoreObsInit
    /\ localStorage = StoredSession(-1)
    /\ SyncIdle
    /\ ReadIdle
    /\ EntryIdle

\* What the two syncs fetched: lists of up to MaxBatch activities, which
\* overlap when both saw the same activity, under the same or an edited name.
ConcNext ==
    \E w \in Writers :
        \/ \E activities \in SeqsUpTo(InputActivities, MaxBatch) : ConcStart(w, "7", activities)
        \/ ConcWriteOK(w)
        \/ ConcWriteFail(w)

ConcSpec == ConcInit /\ [][ConcNext]_vars

-----------------------------------------------------------------------------
(* The last step of two syncAllDataToFirebase calls for athlete 7 running at *)
(* once (a double click on "sync"): each builds its status with the time of  *)
(* that moment and awaits storeSyncStatus, and the writes land in any order. *)

\* const syncStatus = { lastSyncTime: new Date().toISOString(), success, ... }
\* (or errorStatus in the outer catch) of sync w; await storeSyncStatus(...)
ConcStatusBuilt(w, ok) ==
    /\ statusWriters[w].pc = "idle"
    /\ statusWriters' = [statusWriters EXCEPT ![w] =
                             [pc |-> "storeStatus", lastSyncTime |-> ToISOString(now),
                              success |-> ok]]
    /\ UNCHANGED <<qpc, dataTypes, qTypes, qResults, apc, writers, callback>>
    /\ UNCHANGED <<fetchVars, srvVars, readVars, now, storeVars, callerVars, iolog>>

\* setDoc(athleteRef, { syncStatus: statusData }, { merge: true }) of sync w resolves
ConcStatusStored(w) ==
    /\ statusWriters[w].pc = "storeStatus"
    /\ dbReady
    /\ now + 1 < ClockEnd
    /\ LET me == statusWriters[w]
       IN  athleteDocs' =
               SetAthleteField(athleteDocs, "7", "syncStatus",
                               StatusData(EarlierStatus(DateParse(me.lastSyncTime), me.success),
                                          now))
    /\ statusWriters' = [statusWriters EXCEPT ![w].pc = "done"]
    /\ RoundTrip
    /\ UNCHANGED <<qpc, dataTypes, qTypes, qResults, apc, writers, callback>>
    /\ UNCHANGED <<fetchVars, srvVars, readVars, dbReady, activityDocs, storeCallVars, stobs,
                   callerVars, iolog>>

\* storeSyncStatus of sync w throws: catch (error) { console.error(...) }
ConcStatusFailed(w) ==
    /\ statusWriters[w].pc = "storeStatus"
    /\ statusWriters' = [statusWriters EXCEPT ![w].pc = "done"]
    /\ UNCHANGED <<qpc, dataTypes, qTypes, qResults, apc, writers, callback>>
    /\ UNCHANGED <<fetchVars, srvVars, readVars, now, storeVars, callerVars, iolog>>

StatusRaceInit ==
    /\ FetchIdle
    /\ srvSizes = {0}
    /\ now = 0
    /\ dbReady \in BOOLEAN
    /\ athleteDocs \in EarlierAthleteDocs
    /\ activityDocs = <<>>
    /\ StoreCallIdle
    /\ stobs = StoreObsInit
    /\ localStorage = StoredSession(-1)
    /\ SyncIdle
    /\ ReadIdle
    /\ EntryIdle

StatusRaceNext ==
    \/ \E w \in Writers :
           \/ \E ok \in BOOLEAN : ConcStatusBuilt(w, ok)
           \/ ConcStatusStored(w)
           \/ ConcStatusFailed(w)
    \/ Tick

StatusRaceSpec == StatusRaceInit /\ [][StatusRaceNext]_vars

-----------------------------------------------------------------------------
(* handleCallback of the Callback page (pages/Callback.jsx): the page Strava  *)
(* redirects to after the authorization.                                     *)

\* obj[key] of JavaScript: undefined (here "", falsy) when obj has no such key
Field(obj, key) == IF key \in DOMAIN obj THEN obj[key] ELSE ""

\* (mutant) the session is built from the fields the token endpoint answers with
AuthDataOf_FromTokenFields(obj) ==
    [present |-> TRUE, accessToken |-> obj.access_token,
     refreshToken |-> obj.refresh_token, athleteId |-> obj.athlete.id]

\* What syncAllDataToFirebase reads of the object it is given:
\* authData.accessToken, authData.refreshToken and authData.athlete?.id
AuthDataOf(obj) ==
    [present |-> TRUE, accessToken |-> Field(obj, "accessToken"),
     refreshToken |-> Field(obj, "refreshToken"),
     athleteId |-> IF "athlete" \in DOMAIN obj THEN obj.athlete.id ELSE 0]

\* The query of the redirect: ?error=..., no code, or ?code=...
CallbackQueries == {"error", "none", "code"}

\* handleCallback up to await exchangeToken(code):
\* if (errorParam) { setStatus('error'); return }  if (!code) { setStatus('error'); return }
CallbackMount ==
    \E query \in CallbackQueries :
        /\ callback.pc = "idle"
        /\ spc = "idle" /\ qpc = "idle" /\ apc = "idle"
        /\ callback' =
               [callback EXCEPT
                    !.pc = IF query = "code" THEN "exchangeToken" ELSE "error",
                    !.error = CASE query = "error" -> "Authorization was denied"
                                [] query = "none"  -> "No authorization code received"
                                [] OTHER           -> ""]
        /\ UNCHANGED <<qpc, dataTypes, qTypes, qResults, apc, writers, statusWriters>>
        /\ UNCHANGED <<fetchVars, srvVars, readVars, now, storeVars, callerVars, iolog>>

\* const data = await exchangeToken(code) resolves; storeAuthData(data)
CallbackExchanged ==
    \E athleteId \in AthleteIds : \E hours \in {1, 6} :
        LET data == TokenResponse(athleteId, (now \div 1000) + hours * 60 * 60)
        IN  /\ callback.pc = "exchangeToken"
            /\ storeAuthData(data)
            /\ callback' = [callback EXCEPT !.pc = "syncAllDataToFirebase", !.data = data]
            /\ UNCHANGED <<qpc, dataTypes, qTypes, qResults, apc, writers, statusWriters>>
            /\ UNCHANGED <<fetchVars, srvVars, readVars, now, storeVars, syncVars, iolog>>

\* await exchangeToken(code) rejects: catch (err) { setStatus('error') }
CallbackExchangeFailed ==
    /\ callback.pc = "exchangeToken"
    /\ callback' = [callback EXCEPT !.pc = "error", !.error = RefreshFailedMsg]
    /\ UNCHANGED <<qpc, dataTypes, qTypes, qResults, apc, writers, statusWriters>>
    /\ UNCHANGED <<fetchVars, srvVars, readVars, now, storeVars, callerVars, iolog>>

\* await syncAllDataToFirebase(data, ...) up to its first await; when it
\* throws at once: catch (syncError) { setStatus('partial-success') }
CallbackSyncCall ==
    /\ callback.pc = "syncAllDataToFirebase"
    /\ SyncCall(AuthDataOf(callback.data), <<>>)
    /\ callback' = [callback EXCEPT !.pc = IF spc' = "threw" THEN "partial-success"
                                                             ELSE "syncing"]
    /\ UNCHANGED <<qpc, dataTypes, qTypes, qResults, apc, writers, statusWriters>>
    /\ UNCHANGED <<fetchVars, srvVars, readVars, now, storeVars, localStorage>>

\* The page is opened over what earlier sessions left in the store and in
\* localStorage.
CallbackInit ==
    /\ FetchIdle
    /\ srvSizes = {0, 2}
    /\ now = 0
    /\ dbReady \in BOOLEAN
    /\ athleteDocs \in EarlierAthleteDocs
    /\ activityDocs = <<>>
    /\ StoreCallIdle
    /\ stobs = StoreObsInit
    /\ localStorage \in {StoredSession(e) : e \in {-1, 6 * 60 * 60}}
    /\ SyncIdle
    /\ ReadIdle
    /\ EntryIdle

CallbackNext ==
    \/ CallbackMount
    \/ CallbackExchanged
    \/ CallbackExchangeFailed
    \/ CallbackSyncCall

CallbackSpec == CallbackInit /\ [][CallbackNext]_vars

-----------------------------------------------------------------------------
(* The personal-record queries over the activities an athlete has stored.    *)

\* Activities as Strava lists them: id, type, sport_type, distance (m),
\* moving_time (s), total_elevation_gain (m), average_speed (m/s).
Listed(id, type, sportType, distance, movingTime, gain, speed) ==
    [ id |-> id, name |-> "Activity", type |-> type, sport_type |-> sportType,
      distance |-> distance, moving_time |-> movingTime,
      total_elevation_gain |-> gain, average_speed |-> speed, start_date |-> 0 ]

ListedActivities ==
    << Listed(1, "Run",  "Run",  5000,  1500, 50, 3),
       Listed(2, "Run",  "Run",  10000, 2800, 50, 4),
       Listed(3, "Run",  "",     5250,  1400, 0,  4),
       Listed(4, "Run",  "Run",  10000, 3000, 0,  3),
       Listed(5, "Ride", "Ride", 20000, 2400, 0,  8),
       Listed(6, "Run",  "Run",  0,     0,    0,  0),
       Listed(7, "Ride", "Ride", 20000, 3000, 80, 7),
       Listed(8, "Ride", "",     40000, 4000, 80, 10) >>

RECURSIVE InjectiveSeqsUpTo(_, _)
\* The sequences over S without repetition, of length at most n.
InjectiveSeqsUpTo(S, n) ==
    IF n = 0 THEN {<<>>}
    ELSE LET shorter == InjectiveSeqsUpTo(S, n - 1)
         IN  shorter \cup
                 UNION {{Append(q, x) : x \in S \ {q[i] : i \in DOMAIN q}} : q \in shorter}

\* query(activitiesRef, orderBy('start_date', 'desc')): the stored documents
\* of the listed activities, latest start first.
SnapshotOf(order) ==
    [i \in DOMAIN order |->
        ActivityData([ListedActivities[order[i]] EXCEPT !.start_date = Len(order) - i], 0)]

RecordsInit ==
    /\ FetchIdle
    /\ srvSizes = {0}
    /\ now = 0
    /\ dbReady \in BOOLEAN
    /\ athleteDocs = <<>>
    /\ activityDocs = <<>>
    /\ StoreCallIdle
    /\ stobs = StoreObsInit
    /\ localStorage = StoredSession(-1)
    /\ SyncIdle
    /\ nspc = "idle"
    /\ nsArgs = NoNeedsArgs
    /\ nsResult = NoNeedsResult
    /\ querySnapshot \in
           {SnapshotOf(order) : order \in InjectiveSeqsUpTo(DOMAIN ListedActivities, MaxActs)}
    /\ runningPRs = NotAsked
    /\ personalRecords = NotAsked
    /\ cyclingPRs = NotAsked
    /\ EntryIdle

RecordsNext ==
    \/ GetRunningPRs
    \/ GetRunningPRsFailed
    \/ GetPersonalRecords
    \/ GetPersonalRecordsFailed
    \/ GetCyclingPRs
    \/ GetCyclingPRsFailed

RecordsSpec == RecordsInit /\ [][RecordsNext]_vars

-----------------------------------------------------------------------------
(* Claims about getAthleteActivitiesSince *)

FetchEnded == fpc \in {"ret", "threw"}

\* C3 (as claimed): when every request for a page is answered with 429 or a
\* 5xx status, the request is sent at most 1 + 5 times and the fetch then
\* ends by throwing, never by returning a result.
C3_ExhaustedRetriesThrow ==
    (FetchEnded /\ fobs.onlyTransient /\ fobs.pageReqs > 0)
        => (fobs.pageReqs <= maxRetries + 1 /\ fpc = "threw")

\* C4 (as claimed): once a 401, a 403 or another status that is neither 200,
\* 429 nor 5xx has been received, the fetch has failed: no backoff sleep and
\* no further request follows that answer.
C4_FatalStatusFailsImmediately ==
    fobs.fatalSeen => (fpc = "threw" /\ fobs.afterFatal = {})

RECURSIVE ConcatPages(_, _, _)
\* The items of pages from..Len(sizes), one after the other.
ConcatPages(sizes, from, pp) ==
    IF from > Len(sizes) THEN <<>>
    ELSE PageItems(from, sizes[from], pp) \o ConcatPages(sizes, from + 1, pp)

\* C5: when every request was answered with 200, the fetch returns the
\* in-order concatenation of pages 1..k, k being the first page with fewer
\* than perPage items, after exactly k requests; pages of 100, 100 and 37
\* items give 237 activities from three requests.
C5_PaginationConcatenates ==
    (fobs.all200 /\ FetchEnded) =>
        LET k == Len(fobs.okSizes)
        IN  /\ fpc = "ret"
            /\ k >= 1
            /\ fobs.okSizes[k] < perPage
            /\ \A j \in 1..(k - 1) : fobs.okSizes[j] = perPage
            /\ allActivities = ConcatPages(fobs.okSizes, 1, perPage)
            /\ fobs.totalReqs = k
            /\ page = k
            /\ (fobs.okSizes = <<100, 100, 37>> =>
                    Len(allActivities) = 237 /\ fobs.totalReqs = 3)

C5_Witness ==
    /\ fpc = "ret"
    /\ fobs.all200
    /\ fobs.okSizes = <<100, 100, 37>>
    /\ Len(allActivities) = 237
    /\ fobs.totalReqs = 3

-----------------------------------------------------------------------------
(* Claims about storeActivitiesInFirebase *)

\* Every pair written so far has its document, and there is no other document.
C6_OneDocumentPerKey ==
    /\ Cardinality(DOMAIN activityDocs) = Cardinality(stobs.storedKeys)
    /\ \A key \in stobs.storedKeys :
           /\ ActivityPath(key[1], key[2]) \in DOMAIN activityDocs
           /\ activityDocs[ActivityPath(key[1], key[2])].id = key[2]

\* A write of an activity whose document exists adds no document, keeps the
\* id of that document, replaces its name by the name handed over and moves
\* its updated_at forward; no other document changes.
C6_RewriteStep ==
    (stpc = "write" /\ activityDocs' # activityDocs) =>
        LET activity == stActivities[storedCount + 1]
            path     == ActivityPath(stAthleteId, activity.id)
        IN  /\ \A q \in DOMAIN activityDocs \ {path} :
                   q \in DOMAIN activityDocs' /\ activityDocs'[q] = activityDocs[q]
            /\ DOMAIN activityDocs' = DOMAIN activityDocs \cup {path}
            /\ path \in DOMAIN activityDocs =>
                   /\ activityDocs'[path].id = activityDocs[path].id
                   /\ activityDocs'[path].name = activity.name
                   /\ activityDocs'[path].updated_at > activityDocs[path].updated_at

\* C6: any number of storeActivitiesInFirebase calls with equal or
\* overlapping lists leave exactly one document per (athleteId, activity
\* id); storing a stored activity again overwrites its mutable fields and
\* advances updated_at, and neither adds a document nor changes the id.
C6_IdempotentUpsert == []C6_OneDocumentPerKey /\ [][C6_RewriteStep]_vars

\* The same activity was stored by two calls, under a new name the second time.
C6_Witness ==
    /\ stobs.calls = 2
    /\ stobs.rewritten
    /\ stpc = "ret"
    /\ Cardinality(DOMAIN activityDocs) = 1
    /\ \E q \in DOMAIN activityDocs :
           activityDocs[q].name = "Renamed" /\ activityDocs[q].updated_at > 0

-----------------------------------------------------------------------------
(* Claims about syncAllDataToFirebase *)

DataStages == {"profile", "stats", "activities"}

ErrorPrefix(stage) ==
    CASE stage = "profile"    -> "Athlete profile sync failed"
      [] stage = "stats"      -> "Athlete stats sync failed"
      [] stage = "activities" -> "Activities sync failed"

StageResult(results, stage) ==
    CASE stage = "profile"    -> results.athlete
      [] stage = "stats"      -> results.stats
      [] stage = "activities" -> results.activities

\* C1: an error thrown in the profile, stats or activities stage is caught
\* and appended to the error list; the call goes on, never throws because of
\* it, and when it has returned every data stage and the status write have
\* run.
C1_StageErrorsAreCaught ==
    /\ \A stage \in DataStages :
           stage \in sobs.failed =>
               /\ \E i \in DOMAIN syncResults.errors :
                      syncResults.errors[i][1] = ErrorPrefix(stage)
               /\ spc \notin {"threw", "storeErrorStatus"}
    /\ spc \in {"threw", "storeErrorStatus"} => sobs.ended \cap DataStages = {}
    /\ spc = "returned" =>
           /\ DataStages \cup {"status"} \subseteq sobs.ended
           /\ ~syncReturn.threw

C1_Witness ==
    /\ spc = "returned"
    /\ sobs.failed = {"profile", "stats", "activities"}
    /\ Len(syncReturn.errors) = 3
    /\ AthleteDoc(athleteDocs, "7").syncStatus.set

RECURSIVE FailedPrefixes(_, _)
\* The error prefixes of the failed stages among the given ones, in order.
FailedPrefixes(stages, failed) ==
    IF stages = <<>> THEN <<>>
    ELSE (IF Head(stages) \in failed THEN <<ErrorPrefix(Head(stages))>> ELSE <<>>)
             \o FailedPrefixes(Tail(stages), failed)

\* C2: the returned success flag is true exactly when the returned error
\* list is empty; that list has one entry per failed data stage, in the
\* order of the stages, and each stage's result carries the matching flag.
C2_SuccessIffNoErrors ==
    spc = "returned" =>
        /\ syncReturn.success = (syncReturn.errors = <<>>)
        /\ [i \in DOMAIN syncReturn.errors |-> syncReturn.errors[i][1]]
               = FailedPrefixes(<<"profile", "stats", "activities">>, sobs.failed)
        /\ \A stage \in DataStages :
               LET r == StageResult(syncReturn.results, stage)
               IN  /\ r.set
                   /\ r.success = (stage \notin sobs.failed)
                   /\ stage \in sobs.failed =>
                          \E i \in DOMAIN syncReturn.errors :
                              syncReturn.errors[i] = <<ErrorPrefix(stage), r.error>>

\* The stats stage threw, the profile and activities stages did not.
C2_Witness ==
    /\ spc = "returned"
    /\ sobs.failed = {"stats"}
    /\ ~syncReturn.success
    /\ Len(syncReturn.errors) = 1
    /\ syncReturn.errors[1][1] = "Athlete stats sync failed"
    /\ syncReturn.results.athlete.success
    /\ syncReturn.results.activities.success
    /\ syncReturn.results.activities.count = 2

\* C10: the API calls and document writes of one call come stage by stage,
\* in the order refresh, profile, stats, activities, status, and none comes
\* before the stage before it has ended.
C10_StagesInOrder ==
    /\ \A i, j \in DOMAIN iolog : i < j => iolog[i][1] <= iolog[j][1]
    /\ \A j \in DOMAIN iolog :
           \A i \in 1..(j - 1) :
               iolog[i][1] < iolog[j][1] =>
                   \E d \in i..(j - 1) : iolog[d] = <<iolog[i][1], "done">>
    /\ spc = "returned" =>
           {iolog[i][1] : i \in DOMAIN iolog} \ {StageIndex("refresh")}
               = {StageIndex("profile"), StageIndex("stats"),
                  StageIndex("activities"), StageIndex("status")}

\* A call that refreshed the token, fetched two activities after a retry and
\* wrote every document.
C10_Witness ==
    /\ spc = "returned"
    /\ sobs.ended = {"refresh", "profile", "stats", "activities", "status"}
    /\ sobs.failed = {}
    /\ Len(iolog) >= 13
    /\ Cardinality(DOMAIN activityDocs) = 2

-----------------------------------------------------------------------------
(* Claims about needsSync *)

\* The athlete of the call has a persisted lastSyncTime.
HasLastSyncTime ==
    LET status == GetSyncStatus(nsArgs.athleteId)
    IN  status.set /\ status.lastSyncTime # <<>>

\* The persisted lastSyncTime is older than now minus maxAgeHours.
LastSyncIsOlder ==
    DateParse(GetSyncStatus(nsArgs.athleteId).lastSyncTime)
        < nsResult.at - nsArgs.maxAgeHours * MsPerHour

\* C7 (as claimed): needsSync returns true when there is no persisted
\* lastSyncTime, true when it is older than now minus maxAgeHours, and false
\* in every other case.
C7_AsClaimed ==
    nsResult.set => (nsResult.value = (~HasLastSyncTime \/ LastSyncIsOlder))

\* C7 (amended): needsSync returns true when the status cannot be read, true
\* when there is no persisted lastSyncTime, true when it is older than now
\* minus maxAgeHours, and false in every other case.
C7_NeedsSyncUnlessFreshAndReadable ==
    nsResult.set =>
        (nsResult.value = (nsResult.readFailed \/ ~HasLastSyncTime \/ LastSyncIsOlder))

\* The status was read and is exactly maxAgeHours old: not older, so no sync.
C7_Witness ==
    /\ nsResult.set
    /\ ~nsResult.readFailed
    /\ nsArgs.maxAgeHours = 1
    /\ HasLastSyncTime
    /\ DateParse(GetSyncStatus(nsArgs.athleteId).lastSyncTime) = nsResult.at - MsPerHour
    /\ nsResult.value = FALSE

-----------------------------------------------------------------------------
(* Claims about getRunningPRs and getPersonalRecords *)

\* The candidates of the runs of a snapshot for the target distance D: the
\* moving time of a run within 5% of D, the scaled moving time of any other
\* run at least as long as D.
Candidates(snapshot, D) ==
    {[ time   |-> IF WithinTolerance(snapshot[i].distance, D)
                  THEN Frac(snapshot[i].moving_time, 1)
                  ELSE Frac(snapshot[i].moving_time * D[1], D[2] * snapshot[i].distance),
       method |-> IF WithinTolerance(snapshot[i].distance, D) THEN "exact" ELSE "estimate",
       id     |-> snapshot[i].id ] :
        i \in {j \in DOMAIN snapshot :
                   /\ IsScannedRun(snapshot[j])
                   /\ \/ WithinTolerance(snapshot[j].distance, D)
                      \/ snapshot[j].distance * D[2] >= D[1]}}

Metrics == {"longest_distance", "max_average_speed", "max_total_elevation_gain"}

ValueOf(a, metric) ==
    CASE metric = "longest_distance"         -> a.distance
      [] metric = "max_average_speed"        -> a.average_speed
      [] metric = "max_total_elevation_gain" -> a.total_elevation_gain

\* The records of a sport after the first k documents of the snapshot.
RecordsAfter(k, sport) ==
    LET sports == PersonalRecordsOf(SubSeq(querySnapshot, 1, k))
    IN  IF sport \in DOMAIN sports THEN sports[sport] ELSE NoSportRecords

\* C9: within a sport group a record is replaced only by an activity whose
\* value is strictly greater, which then holds it; of the activities with
\* the maximal value the first in iteration order is the holder at the end,
\* never a later one.
C9_RecordsReplacedOnlyByGreater ==
    (personalRecords.set /\ ~personalRecords.threw) =>
        /\ personalRecords.value = PersonalRecordsOf(querySnapshot)
        /\ \A k \in DOMAIN querySnapshot : \A metric \in Metrics :
               LET a      == querySnapshot[k]
                   before == RecordsAfter(k - 1, Sport(a))[metric]
                   after  == RecordsAfter(k, Sport(a))[metric]
               IN  after # before =>
                       /\ ValueOf(a, metric) > before.value
                       /\ after = [value |-> ValueOf(a, metric), activity |-> Holder(a)]
        /\ \A i, j \in DOMAIN querySnapshot : \A metric \in Metrics :
               LET first == querySnapshot[i]
                   later == querySnapshot[j]
                   sport == Sport(first)
                   group == {n \in DOMAIN querySnapshot : Sport(querySnapshot[n]) = sport}
                   rec   == personalRecords.value[sport][metric]
               IN  (/\ i < j
                    /\ Sport(later) = sport
                    /\ ValueOf(first, metric) = ValueOf(later, metric)
                    /\ \A n \in group :
                           /\ ValueOf(querySnapshot[n], metric) <= ValueOf(first, metric)
                           /\ n < i => ValueOf(querySnapshot[n], metric) < ValueOf(first, metric))
                   => /\ rec.activity # Holder(later)
                      /\ rec.value = ValueOf(first, metric)
                      /\ ValueOf(first, metric) > 0 => rec.activity = Holder(first)

\* Two runs of 10000 m, the longest of the runs: the one scanned first holds
\* the record, after a shorter run was scanned before both.
C9_Witness ==
    /\ personalRecords.set /\ ~personalRecords.threw
    /\ Len(querySnapshot) = 3
    /\ querySnapshot[1].id = 1
    /\ querySnapshot[2].id = 4 /\ querySnapshot[2].distance = 10000
    /\ querySnapshot[3].id = 2 /\ querySnapshot[3].distance = 10000
    /\ personalRecords.value["Run"].longest_distance.value = 10000
    /\ personalRecords.value["Run"].longest_distance.activity.id = 4
    /\ personalRecords.value["Run"].total_activities = 3

-----------------------------------------------------------------------------
(* Claims about the order of the page requests *)

\* The pages answered so far with a 200 that carried a full page.
FullPagesAnswered ==
    Cardinality({i \in DOMAIN fobs.okSizes : fobs.okSizes[i] = perPage})

\* The page the call requests is the one after the full pages it was answered.
C11_PageFollowsFullPages ==
    fpc \in {"send", "await"} => page = FullPagesAnswered + 1

\* The page number moves only by one and only in the step that receives a
\* 200 with a full page for it; a 200 for a page ends the fetch or moves to
\* the next page, so no request for that page follows it.
C11_PageStep ==
    LET answered200 == Len(fobs'.okSizes) = Len(fobs.okSizes) + 1
        size        == fobs'.okSizes[Len(fobs'.okSizes)]
    IN  /\ page' # page =>
               /\ page' = page + 1
               /\ fpc = "await"
               /\ answered200 /\ size = perPage
        /\ answered200 =>
               \/ fpc' = "ret" /\ page' = page /\ size < perPage
               \/ fpc' = "send" /\ page' = page + 1 /\ size = perPage
        /\ (fpc = "send" /\ fpc' = "await") => page' = page

\* C11: the pages are requested as 1, 2, 3, ... without gaps; the request
\* for page N+1 is sent only after page N was answered with a 200 carrying a
\* full page, and a page answered with a 200 is never requested again.
C11_PagesStrictlySequential == []C11_PageFollowsFullPages /\ [][C11_PageStep]_vars

\* Page 3 is being requested after two full pages, with retries on the way.
C11_Witness ==
    /\ fpc = "await"
    /\ page = 3
    /\ fobs.okSizes = <<DefaultPerPage, DefaultPerPage>>
    /\ fobs.totalReqs > 3

-----------------------------------------------------------------------------
(* C12 *)

\* The session is missing, has no access token or has no athlete id.
InvalidSession(ad) == ~ad.present \/ ad.accessToken = "" \/ ad.athleteId = 0

\* No entry point was called yet.
NothingCalled == spc = "idle" /\ qpc = "idle" /\ apc = "idle"

\* What a refresh, an API call or a store write would change.
effectVars == <<athleteDocs, activityDocs, localStorage, fetchVars, storeCallVars, stobs, iolog>>

\* A call of syncAllDataToFirebase or quickSync with an invalid session has
\* thrown, and then no step of it was logged and onProgress heard nothing
\* from it.
C12_ThrownUntouched ==
    /\ (spc # "idle" /\ InvalidSession(authData)) =>
           /\ spc = "threw" /\ syncReturn.threw
           /\ iolog = <<>>
           /\ sobs.ended = {}
           /\ progress = IF apc = "idle"
                         THEN <<>>
                         ELSE <<"Data sync needed, starting synchronization...">>
    /\ (qpc # "idle" /\ InvalidSession(authData)) =>
           /\ qpc = "threw"
           /\ iolog = <<>>
           /\ progress = <<>>

\* The step that calls syncAllDataToFirebase or quickSync with an invalid
\* session is the throw, and it changes no document, no stored credential,
\* sends no request and starts no store call.
C12_CallStep ==
    ((spc = "idle" /\ qpc = "idle") /\ (spc' # "idle" \/ qpc' # "idle") /\ InvalidSession(authData'))
        => /\ spc' = "threw" \/ qpc' = "threw"
           /\ UNCHANGED effectVars
           /\ UNCHANGED now

\* C12: when the session is missing or has no access token or no athlete id,
\* syncAllDataToFirebase and quickSync throw at once: before the throw there is
\* no token refresh, no API call, no store write (no sync-status write either)
\* and no progress callback.
C12_InvalidSessionThrowsAtOnce == []C12_ThrownUntouched /\ [][C12_CallStep]_vars

\* quickSync was called without an athlete id while the stored token was
\* expired and an earlier sync had left documents: it threw.
C12_Witness ==
    /\ qpc = "threw"
    /\ authData.present /\ authData.accessToken # "" /\ authData.athleteId = 0
    /\ authData.refreshToken # ""
    /\ isTokenExpired
    /\ athleteDocs # <<>>

-----------------------------------------------------------------------------
(* C13 *)

\* autoSync decides: needsSync has answered and autoSync goes on.
AutoDecides == apc = "needs" /\ apc' \in {"sync", "null"}

\* autoSync returned null: nothing was called and onProgress heard one message.
C13_NoOpTouchedNothing ==
    apc \in {"needs", "null"} =>
        /\ spc = "idle" /\ fpc = "idle" /\ stpc = "idle"
        /\ iolog = <<>>
        /\ fobs.totalReqs = 0
        /\ stobs.calls = 0
        /\ apc = "null" => progress = <<"Data is up to date, no sync needed">>

\* The steps of autoSync up to return null change no document and no stored
\* credential.
C13_NoOpStep ==
    (apc' \in {"needs", "null"}) => UNCHANGED <<effectVars, now>>

\* C13 (as claimed): autoSync runs the full sync exactly when the persisted
\* lastSyncTime is absent or older than maxAgeHours.
C13_AsClaimed ==
    [][AutoDecides => ((apc' = "sync") = (~HasLastSyncTime \/ LastSyncIsOlder))]_vars

\* autoSync calls syncAllDataToFirebase exactly when the status cannot be
\* read, there is no persisted lastSyncTime, or it is older than maxAgeHours.
C13_DecideStep ==
    AutoDecides =>
        /\ (apc' = "sync") = (nsResult.readFailed \/ ~HasLastSyncTime \/ LastSyncIsOlder)
        /\ (apc' = "sync") = (spc' # "idle")

\* C13 (amended): autoSync runs the full sync exactly when the sync status
\* cannot be read, the persisted lastSyncTime is absent, or it is older than
\* maxAgeHours; otherwise it returns null without any API call, token refresh
\* or store write.
C13_AutoSyncWhenNeeded ==
    /\ []C13_NoOpTouchedNothing
    /\ [][C13_DecideStep /\ C13_NoOpStep]_vars

\* autoSync found a status a millisecond old, read it, and returned null
\* although the stored token was expired.
C13_Witness ==
    /\ apc = "null"
    /\ ~nsResult.readFailed
    /\ HasLastSyncTime
    /\ isTokenExpired
    /\ authData.refreshToken # ""
    /\ activityDocs # <<>>

-----------------------------------------------------------------------------
(* C14 *)

\* The errors of a store operation that found no db or no authenticated session.
ClosedMsgs == {NotInitializedMsg, AuthFailedMsg}

\* The step ends storeAthleteProfile or storeAthleteStats of either entry
\* point with the given result of the stage.
EndsStoreWith(result) ==
    \/ spc = "storeProfile" /\ spc' # spc /\ syncResults'.athlete = result
    \/ spc = "storeStats" /\ spc' # spc /\ syncResults'.stats = result
    \/ qpc = "storeProfile" /\ qpc' # qpc /\ qResults'.athlete = result
    \/ qpc = "storeStats" /\ qpc' # qpc /\ qResults'.stats = result

\* The step ends storeAthleteProfile, storeAthleteStats or storeSyncStatus.
EndsAthleteStore ==
    \/ spc \in {"storeProfile", "storeStats", "storeStatus", "storeErrorStatus"} /\ spc' # spc
    \/ qpc \in {"storeProfile", "storeStats"} /\ qpc' # qpc

\* While db is not set no store call gets past its first line and no read
\* resolves; a storeActivitiesInFirebase call that threw for a missing db or
\* a failed authentication has written no document.
C14_NothingPastTheGuards ==
    /\ ~dbReady =>
           /\ stpc \in {"idle", "threw"}
           /\ stpc = "threw" => stError = NotInitializedMsg
           /\ nsResult.set => nsResult.readFailed
    /\ (stpc = "threw" /\ stError \in ClosedMsgs) => (stobs.writes = 0 /\ storedCount = 0)

\* A document changes only while db is set; a store operation that ends
\* while db is not set, or whose authentication fails, throws and leaves every
\* document as it was.
C14_ClosedStep ==
    /\ (athleteDocs' # athleteDocs \/ activityDocs' # activityDocs) => dbReady
    /\ (~dbReady /\ EndsAthleteStore) =>
           /\ UNCHANGED <<athleteDocs, activityDocs>>
           /\ spc \in {"storeProfile", "storeStats"} => EndsStoreWith(FailedResult(NotInitializedMsg))
           /\ qpc \in {"storeProfile", "storeStats"} => EndsStoreWith(FailedResult(NotInitializedMsg))
           /\ spc \in {"storeStatus", "storeErrorStatus"} => "status" \in sobs'.failed
    /\ (\E msg \in ClosedMsgs : EndsStoreWith(FailedResult(msg))) =>
           UNCHANGED <<athleteDocs, activityDocs>>
    /\ (stpc = "auth" /\ stpc' = "threw") =>
           /\ stError' = AuthFailedMsg
           /\ UNCHANGED <<athleteDocs, activityDocs>>
    /\ (nspc = "getSyncStatus" /\ nspc' = "idle" /\ ~dbReady) => nsResult'.readFailed

-----------------------------------------------------------------------------
(* C15 *)

\* The athlete of the running call, as the store functions get it.
CallAthlete == String(authData.athleteId)

\* The key a step of an entry point writes with storeAthleteProfile,
\* storeAthleteStats or storeSyncStatus, "" when it writes none.
WrittenKey ==
    IF athleteDocs' = athleteDocs THEN ""
    ELSE IF spc = "storeProfile" \/ qpc = "storeProfile" THEN "profile"
    ELSE IF spc = "storeStats" \/ qpc = "storeStats" THEN "stats"
    ELSE IF spc \in {"storeStatus", "storeErrorStatus"} THEN "syncStatus"
    ELSE "other"

\* The value the step hands to the store function of the key.
WrittenValue(key) ==
    CASE key = "profile"    -> ProfileData(SrvProfile(authData.athleteId), now)
      [] key = "stats"      -> StatsData(SrvStats, now)
      [] key = "syncStatus" -> StatusData(syncStatus, now)

\* A write of one key leaves the other two keys of the athlete's document,
\* the documents of the other athletes and all activity documents as they
\* were.
C15_OnlyOwnKeyChanges ==
    WrittenKey # "" =>
        /\ WrittenKey \in {"profile", "stats", "syncStatus"}
        /\ activityDocs' = activityDocs
        /\ \A a \in DOMAIN athleteDocs : a \in DOMAIN athleteDocs'
        /\ \A a \in DOMAIN athleteDocs' \ {CallAthlete} :
               a \in DOMAIN athleteDocs /\ athleteDocs'[a] = athleteDocs[a]
        /\ \A key \in {"profile", "stats", "syncStatus"} \ {WrittenKey} :
               AthleteDoc(athleteDocs', CallAthlete)[key] = AthleteDoc(athleteDocs, CallAthlete)[key]

\* After a write of a key the key holds the value of that call.
C15_KeyHoldsWrittenValue ==
    WrittenKey # "" =>
        AthleteDoc(athleteDocs', CallAthlete)[WrittenKey] = WrittenValue(WrittenKey)

\* The frame half of C15, which holds: [][C15_OnlyOwnKeyChanges]_vars.
C15_FrameHolds == [][C15_OnlyOwnKeyChanges]_vars

\* C15: storeAthleteProfile, storeAthleteStats and storeSyncStatus each change
\* only their own key of the athlete's document: after a call its key holds
\* the value of that call, the other two keys are as before and no activity
\* document has changed.
C15_EachKeyHoldsLatestCall ==
    [][C15_OnlyOwnKeyChanges /\ C15_KeyHoldsWrittenValue]_vars

-----------------------------------------------------------------------------
(* C16 *)

\* During a call the number of its writes is storedCount, and what a call
\* has written is stored.
C16_WrittenStaysStored ==
    /\ stobs.writes = storedCount
    /\ stpc \in {"write", "threw"} => storedCount <= MaxBatch
    /\ \A key \in stobs.storedKeys : ActivityPath(key[1], key[2]) \in DOMAIN activityDocs

\* An activity document changes only by the write of the activity at
\* position storedCount + 1 of the list, which is then counted; the write
\* that fails changes no document, ends the call by a throw and is the last
\* step of the call.
C16_WriteStep ==
    /\ (activityDocs' # activityDocs \/ storedCount' > storedCount) =>
           /\ stpc = "write"
           /\ storedCount' = storedCount + 1
           /\ LET activity == stActivities[storedCount + 1]
              IN  activityDocs' = SetActivityDoc(activityDocs,
                                                 ActivityPath(stAthleteId, activity.id),
                                                 ActivityData(activity, now))
    /\ (stpc = "write" /\ stpc' = "threw") =>
           /\ stError' = WriteFailedMsg
           /\ activityDocs' = activityDocs
           /\ storedCount' = storedCount
    /\ stpc = "threw" => (activityDocs' = activityDocs \/ stobs'.calls > stobs.calls)
    /\ (stpc = "threw" /\ stpc' # "threw") => stobs'.calls > stobs.calls

\* C16: within one storeActivitiesInFirebase call the activities are written
\* one at a time in input order; when the k-th write fails the call throws,
\* the first k-1 activities remain stored and none after the k-th is written.
C16_WritesInOrderUntilFailure == []C16_WrittenStaysStored /\ [][C16_WriteStep]_vars

\* The first call stored its first activity and threw on the write of the second.
C16_Witness ==
    /\ stobs.calls = 1
    /\ stpc = "threw" /\ stError = WriteFailedMsg
    /\ storedCount = 1
    /\ Cardinality(DOMAIN activityDocs) = 1

-----------------------------------------------------------------------------
(* C17 *)

\* The step keeps every activity document, changing at most the one the
\* running store call writes, and keeps the profile and the stats of every
\* athlete document that has them.
C17_NothingRemovedStep ==
    /\ \A path \in DOMAIN activityDocs :
           /\ path \in DOMAIN activityDocs'
           /\ \/ activityDocs'[path] = activityDocs[path]
              \/ stpc = "write" /\ path = ActivityPath(stAthleteId, stActivities[storedCount + 1].id)
    /\ \A a \in DOMAIN athleteDocs :
           /\ a \in DOMAIN athleteDocs'
           /\ athleteDocs[a].profile.set => athleteDocs'[a].profile.set
           /\ athleteDocs[a].stats.set => athleteDocs'[a].stats.set
           /\ athleteDocs'[a].profile # athleteDocs[a].profile =>
                  (spc = "storeProfile" \/ qpc = "storeProfile")
           /\ athleteDocs'[a].stats # athleteDocs[a].stats =>
                  (spc = "storeStats" \/ qpc = "storeStats")

\* C17: a sync attempt (syncAllDataToFirebase, quickSync or autoSync) that
\* fails in a stage or throws never removes previously synced data: every
\* activity document, and the profile and the stats, stored before the
\* attempt are still stored afterwards.
C17_FailedSyncRemovesNothing == [][C17_NothingRemovedStep]_vars

\* A full sync over the documents of an earlier sync failed to refresh the
\* token, wrote its error status over the earlier status and threw: the
\* earlier activity, profile and stats are still stored.
C17_Witness ==
    /\ spc = "threw"
    /\ syncReturn.error = RefreshFailedMsg
    /\ ~AthleteDoc(athleteDocs, "7").syncStatus.success
    /\ AthleteDoc(athleteDocs, "7").profile.set
    /\ AthleteDoc(athleteDocs, "7").stats.set
    /\ ActivityPath("7", 3) \in DOMAIN activityDocs

-----------------------------------------------------------------------------
(* C18 *)

\* What the two calls have written so far: pairs of an activity id and the data.
WrittenByEither == writers[1].written \cup writers[2].written

\* The activity documents of athlete 7 that hold the activity of an id.
DocsOfActivity(id) == {path \in DOMAIN activityDocs : path[1] = "7" /\ activityDocs[path].id = id}

\* The times at which a call wrote.
WriteTimes(w) == {x[2].stored_at : x \in writers[w].written}

\* C18: when two syncs of the same athlete run at once and their activity
\* writes interleave in any order, the collection holds exactly one document
\* for each activity id either sync wrote, that document equals the data one
\* of the two syncs wrote for the id, and there is no other new document.
C18_ConcurrentUpsertsKeepOneDocPerId ==
    /\ \A id \in {x[1] : x \in WrittenByEither} :
           /\ DocsOfActivity(id) = {ActivityPath("7", id)}
           /\ <<id, activityDocs[ActivityPath("7", id)]>> \in WrittenByEither
    /\ \A path \in DOMAIN activityDocs :
           \/ <<activityDocs[path].id, activityDocs[path]>> \in WrittenByEither
           \/ \E earlier \in EarlierSyncs :
                  /\ path \in DOMAIN earlier.activityDocs
                  /\ activityDocs[path] = earlier.activityDocs[path]

\* Both syncs have stored two activities each, turn by turn, among them the
\* same activity under two names, over the document of an earlier sync.
C18_Witness ==
    /\ writers[1].pc = "ret" /\ writers[2].pc = "ret"
    /\ WriteTimes(1) = {0, 2} /\ WriteTimes(2) = {1, 3}
    /\ \E x \in writers[1].written : \E y \in writers[2].written :
           x[1] = y[1] /\ x[2].name # y[2].name
    /\ Cardinality(DOMAIN activityDocs) = 3

-----------------------------------------------------------------------------
(* C19 *)

\* An authenticated request of the running sync is on its way to the API.
ApiCallInFlight ==
    \/ spc \in {"getAthlete", "getStats"}
    \/ qpc \in {"getAthlete", "getStats"}
    \/ (spc = "fetchActivities" \/ qpc = "fetchActivities") /\ fpc = "await"

\* C19: during a sync token expiry is checked immediately before every
\* authenticated call to the API and an expired token is replaced before the
\* call: no API call is issued with an access token that is expired at the
\* time of the call.
C19_NoCallWithExpiredToken == ApiCallInFlight => ~isTokenExpired

\* The same for syncs that were given a refresh token.
C19_WithRefreshToken == (ApiCallInFlight /\ authData.refreshToken # "") => ~isTokenExpired

-----------------------------------------------------------------------------
(* C20 *)

\* The refresh of the running syncAllDataToFirebase, or of the running
\* quickSync, has failed.
SyncRefreshHasFailed == "refresh" \in sobs.failed
QuickRefreshHasFailed == qpc = "threw" /\ ~InvalidSession(authData)

\* The requests of the call to the API, by stage: the token exchange, and
\* the profile, stats and activities requests.
RefreshRequests == {i \in DOMAIN iolog : iolog[i] = <<StageIndex("refresh"), "api">>}
DataRequests == {i \in DOMAIN iolog : iolog[i][2] = "api" /\ iolog[i][1] # StageIndex("refresh")}

\* After a failed refresh the call is throwing or has thrown that error, the
\* token exchange was requested once, and no profile, stats or activities
\* request was made.
C20_FailedRefreshEndsTheCall ==
    /\ SyncRefreshHasFailed =>
           /\ spc \in {"storeErrorStatus", "threw"}
           /\ syncReturn.error = RefreshFailedMsg
           /\ spc = "threw" => syncReturn.threw
    /\ (SyncRefreshHasFailed \/ QuickRefreshHasFailed) =>
           /\ Cardinality(RefreshRequests) = 1
           /\ DataRequests = {}
           /\ fpc = "idle" /\ fobs.totalReqs = 0
           /\ accessToken = authData.accessToken

\* The stored credential changes only when a refresh succeeds: the failing
\* refresh and what follows it leave it as it was, and the call that waits
\* for the token exchange ends it or goes on, but does not ask again.
C20_CredentialStep ==
    /\ localStorage' # localStorage =>
           \/ spc = "refresh" /\ spc' = "getAthlete"
           \/ qpc = "refresh" /\ qpc' \notin {"refresh", "threw"}
    /\ (SyncRefreshHasFailed' \/ QuickRefreshHasFailed') => localStorage' = localStorage
    /\ (qpc = "refresh" /\ qpc' = "threw") => UNCHANGED <<athleteDocs, activityDocs, progress>>

\* C20: when the refresh-token exchange fails during syncAllDataToFirebase or
\* quickSync the error propagates to the caller: the refresh is not retried,
\* the persisted credential is left unchanged, and no profile, stats or
\* activities request is made in that invocation.
C20_RefreshFailurePropagates == []C20_FailedRefreshEndsTheCall /\ [][C20_CredentialStep]_vars

\* quickSync was asked for all three data types with an expired stored
\* token; the token exchange failed and quickSync threw.
C20_Witness ==
    /\ QuickRefreshHasFailed
    /\ qTypes = <<"athlete", "stats", "activities">>
    /\ iolog = <<<<StageIndex("refresh"), "api">>, <<StageIndex("refresh"), "done">>>>
    /\ localStorage = StoredSession(-1)
    /\ progress = <<"Refreshing access token...">>

-----------------------------------------------------------------------------
(* C21 *)

\* The data types the caller of quickSync listed.
ListedTypes == {dataTypes[i] : i \in DOMAIN dataTypes}

\* The entries of the log of the call that belong to the stage of a data type.
LoggedFor(dataType) ==
    {i \in DOMAIN iolog : iolog[i][1] = StageIndex(StageOfType(dataType))}

\* quickSync is past its preconditions.
QuickRuns == qpc \notin {"idle", "threw"} \/ (qpc = "threw" /\ ~InvalidSession(authData))

\* A data type that is not listed has no result, no API call and no write;
\* when quickSync returns, every listed data type has made its API call and
\* has a result, whatever happened to the others.
C21_OnlyListedTypesRun ==
    QuickRuns =>
        /\ \A t \in KnownDataTypes \ ListedTypes :
               /\ qResults[t] = NullResult
               /\ LoggedFor(t) = {}
        /\ ("activities" \notin ListedTypes) => (fobs.totalReqs = 0 /\ stobs.calls = 0)
        /\ qpc = "returned" =>
               \A t \in KnownDataTypes \cap ListedTypes :
                   /\ qResults[t].set
                   /\ \E i \in LoggedFor(t) : iolog[i][2] = "api"

\* A step of quickSync changes the result of the data type it is at and of
\* no other; a failure is recorded as { success: false, error } and the loop
\* goes on with the rest of the list; documents change only under the listed
\* data types.
C21_OneTypeStep ==
    /\ qResults' # qResults =>
           /\ qTypes # <<>>
           /\ Head(qTypes) \in ListedTypes
           /\ \A t \in KnownDataTypes \ {Head(qTypes)} : qResults'[t] = qResults[t]
           /\ ~qResults'[Head(qTypes)].success =>
                  /\ qResults'[Head(qTypes)].error # ""
                  /\ qTypes' = SkipUnknown(Tail(qTypes))
                  /\ qpc' # "threw"
    /\ (qpc # "idle" /\ athleteDocs' # athleteDocs) =>
           \/ "athlete" \in ListedTypes /\ qpc = "storeProfile"
           \/ "stats" \in ListedTypes /\ qpc = "storeStats"
    /\ (qpc # "idle" /\ activityDocs' # activityDocs) => "activities" \in ListedTypes

\* C21: quickSync fetches and stores only the data types listed in
\* dataTypes: an unlisted type causes no API call and no store write; a
\* failure of one listed type is recorded as { success: false, error } for
\* that type only, and every other listed type still runs.
C21_QuickSyncRunsListedTypes == []C21_OnlyListedTypesRun /\ [][C21_OneTypeStep]_vars

\* quickSync was asked for stats and athlete: the stats request failed, the
\* profile was fetched and stored all the same, and no activity was asked for.
C21_Witness ==
    /\ qpc = "returned"
    /\ dataTypes = <<"stats", "athlete">>
    /\ qResults.stats = FailedResult(ApiFailedMsg)
    /\ qResults.athlete.success
    /\ qResults.activities = NullResult
    /\ AthleteDoc(athleteDocs, "7").profile.stored_at = now - 1

\* ---------------------------------------------------------------------------
\* C22  getCyclingPRs: elevation total and biggest climb
\* ---------------------------------------------------------------------------

\* The rides of a snapshot that getCyclingPRs does not skip, in snapshot order.
QualifyingRides(snapshot) == SelectSeq(snapshot, IsScannedRide)

RECURSIVE SumOfGains(_)
SumOfGains(rides) ==
    IF rides = <<>> THEN 0
    ELSE rides[1].total_elevation_gain + SumOfGains(Tail(rides))

\* C22: when getCyclingPRs resolves, 'Elevation Gain'.total is the sum of
\* total_elevation_gain over all qualifying rides; 'Biggest Climb' is their
\* maximum, held by the first ride of the snapshot that reaches it (no ride
\* when no qualifying ride climbs at all); and the total is never smaller than
\* the biggest climb.
C22_ElevationTotalAndBiggestClimb ==
    (cyclingPRs.set /\ ~cyclingPRs.threw) =>
        LET rides == QualifyingRides(querySnapshot)
            v     == cyclingPRs.value
            climb == v.BiggestClimb
        IN  /\ v.ElevationGain = SumOfGains(rides)
            /\ \A i \in DOMAIN rides : rides[i].total_elevation_gain <= climb.elevation
            /\ IF \E i \in DOMAIN rides : rides[i].total_elevation_gain > 0
               THEN \E i \in DOMAIN rides :
                       /\ rides[i].total_elevation_gain = climb.elevation
                       /\ climb.activity = Holder(rides[i])
                       /\ \A j \in 1..(i - 1) :
                              rides[j].total_elevation_gain < climb.elevation
               ELSE climb = NoClimb
            /\ v.ElevationGain >= climb.elevation

\* Two rides with the same climb of 80 m, ride 8 first, and a flat ride: the
\* total is 160, the biggest climb 80 and its holder the ride seen first.
C22_Witness ==
    /\ cyclingPRs.set /\ ~cyclingPRs.threw
    /\ querySnapshot = SnapshotOf(<<8, 5, 7>>)
    /\ cyclingPRs.value.ElevationGain = 160
    /\ cyclingPRs.value.BiggestClimb.elevation = 80
    /\ cyclingPRs.value.BiggestClimb.activity.id = 8

\* ---------------------------------------------------------------------------
\* C23  needsSync after a failed sync
\* ---------------------------------------------------------------------------

\* The persisted status of the athlete needsSync was asked about is the one a
\* failed sync wrote (success: false), and no other sync left anything.
LastSyncFailed ==
    LET status == GetSyncStatus(nsArgs.athleteId)
    IN  status.set /\ status.lastSyncTime # <<>> /\ ~status.success

\* C23: when the athlete's most recent sync recorded success = false and no
\* successful sync completed within maxAgeHours, needsSync returns true (a
\* failed sync does not make the data count as fresh).
C23_FailedSyncDoesNotCountAsFresh ==
    (nsResult.set /\ LastSyncFailed) => nsResult.value = TRUE

\* needsSync read a status of a failed sync that is older than maxAgeHours and
\* answered true: the only case in which a failed sync leads to a new sync.
C23_StaleFailedSyncNeedsSync ==
    /\ nsResult.set /\ ~nsResult.readFailed
    /\ LastSyncFailed
    /\ LastSyncIsOlder
    /\ nsResult.value = TRUE

\* ---------------------------------------------------------------------------
\* C24  no token in the document store
\* ---------------------------------------------------------------------------

\* The access and refresh tokens the session holds or has held: the ones
\* passed in, the ones in localStorage and the ones the token endpoint issues.
SessionSecrets ==
    { authData.accessToken, authData.refreshToken, accessToken,
      localStorage.access_token, localStorage.refresh_token,
      ValidAuthData.accessToken, ValidAuthData.refreshToken,
      RefreshedAuthData.access_token, RefreshedAuthData.refresh_token } \ {""}

\* The texts of a stored sync status: its error list (plain messages in an
\* error status, prefixed messages otherwise) and the errors of its results.
TextsOfStatus(status) ==
    LET results == status.syncResults
    IN  (IF status.hasResults
         THEN UNION {{status.errors[i][1], status.errors[i][2]} : i \in DOMAIN status.errors}
         ELSE {status.errors[i] : i \in DOMAIN status.errors})
        \cup UNION {{results.errors[i][1], results.errors[i][2]} : i \in DOMAIN results.errors}
        \cup {results.athlete.error, results.stats.error, results.activities.error}

\* Every text held in the documents of the store, document ids included.
StoredTexts ==
    DOMAIN athleteDocs
        \cup UNION {{athleteDocs[a].profile.firstname} \cup TextsOfStatus(athleteDocs[a].syncStatus) :
                       a \in DOMAIN athleteDocs}
        \cup UNION {{activityDocs[p].name, activityDocs[p].type, activityDocs[p].sport_type} :
                       p \in DOMAIN activityDocs}

\* C24: nothing the sync writes to the document store (profile, stats,
\* activities, sync status, error status) contains the session's access token
\* or refresh token.
C24_NoTokenInTheStore == StoredTexts \cap SessionSecrets = {}

\* A sync with a refreshed token wrote the profile and the activities, lost
\* the stats stage to an API error and stored the status that names the error.
C24_Witness ==
    /\ spc = "returned"
    /\ localStorage.access_token = RefreshedAuthData.access_token
    /\ AthleteDoc(athleteDocs, "7").profile.stored_at >= 0
    /\ AthleteDoc(athleteDocs, "7").syncStatus.stored_at > 0
    /\ AthleteDoc(athleteDocs, "7").syncStatus.syncResults.stats.error = ApiFailedMsg
    /\ \E p \in DOMAIN activityDocs : activityDocs[p].stored_at > 0

\* ---------------------------------------------------------------------------
\* C25  exact matches and estimates in getRunningPRs and getCyclingPRs
\* ---------------------------------------------------------------------------

\* Some run of the snapshot that getRunningPRs scans is within 5% of D.
HasExactRun(D) ==
    \E i \in DOMAIN querySnapshot :
        IsScannedRun(querySnapshot[i]) /\ WithinTolerance(querySnapshot[i].distance, D)

\* Some ride of the snapshot that getCyclingPRs scans is within 5% of D.
HasExactRide(D) ==
    \E i \in DOMAIN querySnapshot :
        IsScannedRide(querySnapshot[i]) /\ WithinTolerance(querySnapshot[i].distance, D)

\* C25: in getRunningPRs and getCyclingPRs an estimated time is reported for
\* a target distance only if no stored activity is within 5% of that distance
\* (an exact match is preferred to any estimate).
C25_EstimateOnlyWithoutExactMatch ==
    /\ (runningPRs.set /\ ~runningPRs.threw) =>
           \A label \in Labels :
               runningPRs.value.prs[label].method = "estimate"
                   => ~HasExactRun(Target(label).meters)
    /\ (cyclingPRs.set /\ ~cyclingPRs.threw) =>
           \A label \in CyclingLabels :
               cyclingPRs.value.prs[label].method = "estimate"
                   => ~HasExactRide(CyclingTarget(label).meters)

\* getCyclingPRs too reports an estimate although a ride matches the target.
C25_RidesAsClaimed ==
    (cyclingPRs.set /\ ~cyclingPRs.threw) =>
        \A label \in CyclingLabels :
            cyclingPRs.value.prs[label].method = "estimate"
                => ~HasExactRide(CyclingTarget(label).meters)

\* ---------------------------------------------------------------------------
\* C26  the order of the stages of quickSync
\* ---------------------------------------------------------------------------

\* The entries of dataTypes that name a stage, in the caller's order.
RequestedStages ==
    LET kept == SelectSeq(dataTypes, LAMBDA t : t \in KnownDataTypes)
    IN  [i \in DOMAIN kept |-> StageIndex(StageOfType(kept[i]))]

\* The API calls, writes and stage ends of quickSync after the token refresh.
QuickLog == SelectSeq(iolog, LAMBDA e : e[1] # StageIndex("refresh"))

\* The stages quickSync had ended before the i-th entry of QuickLog.
EndedBefore(i) == Cardinality({j \in 1..(i - 1) : QuickLog[j][2] = "done"})

\* C26 (as claimed): quickSync runs its stages in the order profile, stats,
\* activities, whatever the order of the entries of dataTypes: no API call or
\* write of a stage follows one of a later stage.
C26_AsClaimed ==
    qpc # "idle" =>
        \A i, j \in DOMAIN QuickLog : i < j => QuickLog[i][1] <= QuickLog[j][1]

\* C26 (amended): quickSync runs the stages its dataTypes names in the order
\* of the entries of dataTypes, a repeated entry running again; every API
\* call and write belongs to the entry the loop is at, so each stage is
\* completed before the next starts, and the call returns after the last.
C26_StagesRunInCallersOrder ==
    qpc # "idle" =>
        /\ \A i \in DOMAIN QuickLog :
               /\ EndedBefore(i) < Len(RequestedStages)
               /\ QuickLog[i][1] = RequestedStages[EndedBefore(i) + 1]
        /\ qpc = "returned" => EndedBefore(Len(QuickLog) + 1) = Len(RequestedStages)
        /\ \A i, j \in DOMAIN iolog :
               (i < j /\ iolog[j][1] = StageIndex("refresh"))
                   => iolog[i][1] = StageIndex("refresh")

\* quickSync(authData, ['stats', 'athlete']) has returned: the stats were
\* fetched and written before the profile was fetched.
C26_Witness ==
    /\ qpc = "returned"
    /\ dataTypes = <<"stats", "athlete">>
    /\ qResults.stats.success /\ qResults.athlete.success
    /\ QuickLog = << <<StageIndex("stats"), "api">>, <<StageIndex("stats"), "write">>,
                     <<StageIndex("stats"), "done">>, <<StageIndex("profile"), "api">>,
                     <<StageIndex("profile"), "write">>, <<StageIndex("profile"), "done">> >>

\* quickSync(authData, ['stats', 'stats']) fetched and wrote the stats twice.
C26_RepeatedEntryRunsAgain ==
    /\ qpc = "returned"
    /\ dataTypes = <<"stats", "stats">>
    /\ Len(QuickLog) = 6
    /\ AthleteDoc(athleteDocs, "7").stats.stored_at = now - 1

\* ---------------------------------------------------------------------------
\* C27  the persisted lastSyncTime under concurrent syncs
\* ---------------------------------------------------------------------------

\* The persisted lastSyncTime of athlete 7 in milliseconds.
PersistedLastSync(docs) == DateParse(AthleteDoc(docs, "7").syncStatus.lastSyncTime)

\* A step replaces a persisted sync status of athlete 7 by another.
ReplacesStatus ==
    /\ AthleteDoc(athleteDocs, "7").syncStatus.set
    /\ AthleteDoc(athleteDocs, "7").syncStatus.lastSyncTime # <<>>
    /\ athleteDocs' # athleteDocs

\* C27: the persisted syncStatus.lastSyncTime of an athlete never moves
\* backwards: each status write, of two concurrent syncs too, stores a
\* lastSyncTime greater than or equal to the one it replaces.
C27_LastSyncTimeNeverMovesBack ==
    [][ReplacesStatus => PersistedLastSync(athleteDocs') >= PersistedLastSync(athleteDocs)]_vars

\* A status write never stores a time of the future: lastSyncTime is the
\* moment the sync built its status, which is not after the write.
C27_LastSyncTimeIsPast ==
    AthleteDoc(athleteDocs, "7").syncStatus.set => PersistedLastSync(athleteDocs) <= now

\* The sync that built its status first wrote it last: the persisted
\* lastSyncTime is an hour older than the one of the other sync.
C27_OlderStatusLandedLast ==
    /\ statusWriters[1].pc = "done" /\ statusWriters[2].pc = "done"
    /\ DateParse(statusWriters[1].lastSyncTime) = 0
    /\ DateParse(statusWriters[2].lastSyncTime) = MsPerHour
    /\ AthleteDoc(athleteDocs, "7").syncStatus.stored_at = MsPerHour + 1
    /\ PersistedLastSync(athleteDocs) = 0

\* ---------------------------------------------------------------------------
\* C28  getAthleteActivitiesSince terminates within its retry budget
\* ---------------------------------------------------------------------------

\* attempt counts the requests of the current page that were answered
\* without success: at most maxRetries + 1 requests are sent for a page.
C28_RetryBudget ==
    /\ attempt <= maxRetries + 1
    /\ fobs.maxPageReqs <= maxRetries + 1
    /\ fpc = "send" => fobs.pageReqs = attempt
    /\ fpc = "await" => fobs.pageReqs = attempt + 1

\* A new page starts with attempt = 0 and no request sent for it; within a
\* page attempt never goes down.
C28_RetryCounterStep ==
    IF page' # page
    THEN attempt' = 0 /\ fobs'.pageReqs = 0 /\ fpc' = "send"
    ELSE attempt' >= attempt

\* C28: with every request answered, and a server whose list ends (some page
\* has fewer than perPage items), every call of getAthleteActivitiesSince
\* ends by returning or throwing; for one page at most 1 + maxRetries = 6
\* requests are sent, and the retry counter starts from zero for each page.
C28_FetchTerminates ==
    /\ <>FetchEnded
    /\ []C28_RetryBudget
    /\ [][C28_RetryCounterStep]_vars

\* The fetch ended on its third page after six requests for that page, five
\* of them retries, having used retries on an earlier page too.
C28_Witness ==
    /\ FetchEnded
    /\ page = 3
    /\ fobs.pageReqs = maxRetries + 1
    /\ fobs.totalReqs > fobs.pageReqs + 2
    /\ attempt >= maxRetries

\* ---------------------------------------------------------------------------
\* C29  the sync after login
\* ---------------------------------------------------------------------------

\* The code exchange has succeeded and handleCallback has called
\* syncAllDataToFirebase with the token response.
SyncCalledAfterLogin == callback.pc \in {"syncing", "partial-success", "success"}

\* C29: in the login callback flow, after a successful authorization-code
\* exchange the credential handed to syncAllDataToFirebase passes its
\* precondition check, so the profile, stats and activities stages run.
C29_SyncRunsAfterLogin ==
    SyncCalledAfterLogin =>
        /\ ~(spc = "threw" /\ syncReturn.error \in {NoAuthMsg, NoAthleteMsg})
        /\ accessToken = callback.data.access_token

\* What happens instead: the call is rejected for want of authData.accessToken
\* before its try block, nothing is requested or written, and the page shows
\* 'partial-success' with the session stored in localStorage.
C29_SyncIsRejectedAfterLogin ==
    SyncCalledAfterLogin =>
        /\ callback.pc = "partial-success"
        /\ spc = "threw" /\ syncReturn.error = NoAuthMsg
        /\ iolog = <<>> /\ fobs.totalReqs = 0 /\ stobs.calls = 0
        /\ localStorage.access_token = callback.data.access_token

\* The page has ended in 'partial-success' for athlete 7.
C29_PartialSuccessReached ==
    /\ callback.pc = "partial-success"
    /\ callback.data.athlete.id = 7
    /\ authData.athleteId = 7 /\ authData.accessToken = ""

\* ---------------------------------------------------------------------------
\* C30  the returned result and the persisted sync status
\* ---------------------------------------------------------------------------

\* The sync status persisted for the athlete of the current call.
PersistedStatus == AthleteDoc(athleteDocs, String(authData.athleteId)).syncStatus

\* The persisted status has the lastSyncTime, the success flag and the error
\* list of the returned result.
StatusAgreesWithResult ==
    /\ PersistedStatus.set
    /\ PersistedStatus.lastSyncTime = syncReturn.lastSyncTime
    /\ PersistedStatus.success = syncReturn.success
    /\ PersistedStatus.errors = syncReturn.errors

\* C30 (as claimed): whenever syncAllDataToFirebase returns a result, the
\* sync status persisted by this invocation agrees with it; no result is
\* returned without the matching status having been written.
C30_AsClaimed == spc = "returned" => StatusAgreesWithResult

\* The result was returned after a status write that succeeded: the persisted
\* status is the one this call wrote and agrees with the result. After a
\* status write that failed the store holds no status or the one of an
\* earlier sync.
C30_StatusAfterReturn ==
    spc = "returned" =>
        IF "status" \notin sobs.failed
        THEN StatusAgreesWithResult /\ PersistedStatus.stored_at = now - 1
        ELSE ~PersistedStatus.set \/ PersistedStatus.stored_at < 0

\* The step that returns the result after a failed status write changes no
\* document.
C30_FailedWriteStep ==
    (spc = "storeStatus" /\ spc' = "returned" /\ "status" \in sobs'.failed)
        => UNCHANGED <<athleteDocs, activityDocs>>

\* C30 (amended): when syncAllDataToFirebase returns a result and its
\* storeSyncStatus call succeeded, the persisted status has the returned
\* lastSyncTime, success flag and error list; when that call failed, the
\* result is returned all the same and the store keeps what it held before.
C30_StatusAgreesWhenWritten == []C30_StatusAfterReturn /\ [][C30_FailedWriteStep]_vars

\* A sync with a failed stats stage has returned after its status was written
\* over the status of an earlier, successful sync.
C30_Witness ==
    /\ spc = "returned"
    /\ "status" \notin sobs.failed
    /\ ~syncReturn.success /\ Len(syncReturn.errors) = 1
    /\ syncReturn.results.stats.error = ApiFailedMsg
    /\ StatusAgreesWithResult
    /\ PersistedStatus.stored_at = now - 1
    /\ AthleteDoc(athleteDocs, "7").profile.stored_at >= 0

\* A result with success = true was returned although the status write
\* failed: the store still holds the status of the earlier sync.
C30_ResultWithoutStatus ==
    /\ spc = "returned"
    /\ "status" \in sobs.failed
    /\ syncReturn.success
    /\ PersistedStatus.set /\ PersistedStatus.stored_at < 0
    /\ PersistedStatus.lastSyncTime # syncReturn.lastSyncTime

====
